---- MODULE Spec2Model ----
(***************************************************************************)
(* A model of the Ditto virtual machine (src/vm/vm.c, src/vm/core.c,       *)
(* src/object/obj_thread.c): the fibers of the dispatch loop, their value  *)
(* stacks, frames and open upvalues, and the per-class method tables.      *)
(*                                                                         *)
(* One action per instruction of the dispatch loop; the bytecode is an      *)
(* input: any instruction whose operands are on the stack may be the next. *)
(*                                                                         *)
(* Spec       the fibers: the Thread natives and Return.                   *)
(* SpecFrame  one fiber: script calls, Return, closures and upvalues.      *)
(* SpecNative the natives, applied to the operand stacks they can find.    *)
(* SpecClass  the method tables: bindMethod, bindSuperClass and the lookup *)
(*            of CallN/SuperN.                                             *)
(***************************************************************************)
EXTENDS Integers, Sequences, FiniteSets, TLC

\* ------------------------------------------------------------------ bounds
MaxThreads == 2       \* fibers that can be allocated
MaxFrames == 2        \* frames a fiber may hold (guards the script calls)
MaxStack == 2         \* live slots of a fiber's value stack under Spec
MaxFrameStack == 3    \* live slots of the value stack under SpecFrame
MaxUpvalues == 2      \* upvalue objects that can be allocated
MaxArgNum == 2        \* receiver + arguments of a script call
MaxOperands == 3      \* slots of the operand stacks SpecNative starts from
MaxClasses == 4       \* Class objects (classes and their meta classes)
MaxSymbol == 3        \* the largest index in vm->allMethodNames
MaxInheritClasses == 6  \* Class objects under SpecInherit
MaxFieldNum == 2      \* fields a class definition declares (besides the limit)
MaxNames == 4         \* entries of vm->allMethodNames under SpecConstruct
MaxModuleVars == 4    \* entries of a module's moduleVarName
MaxLineNo == 2        \* source lines of a module
MaxScopeDepth == 2    \* nested blocks of a compile unit
MaxDeclared == 3      \* local declarations compiled under SpecLocals
MaxMapValue == 2      \* values stored in a map
MaxMapOps == 4        \* operations on the map of SpecMap
MaxListLen == 6       \* elements of the list of SpecList
MaxListOps == 5       \* operations on the list of SpecList
MaxJunkUpvalueNum == 16 \* upvalueNum of a junk function constant read by getBytesOfOperands
MaxJumpStack == 4     \* values on the stack of the instructions SpecJump runs

\* ------------------------------------------------------- program constants
INITIAL_FRAME_NUM == 4
MAX_FIELD_NUM == 128
MAX_LOCAL_VAR_NUM == 128
MAX_ID_LEN == 128
MIN_CAPACITY == 64
CAPACITY_GROW_FACTOR == 4

\* the addresses a fiber's value stack can be allocated at (memManager/realloc
\* extends the block in place or moves it)
StackBases == {0, 16}

\* ------------------------------------------------------------------ values
Null == [type |-> "VT_NULL", obj |-> 0]
ObjStr == [type |-> "OT_STRING", obj |-> 0]
ClassVal == [type |-> "OT_CLASS", obj |-> 0]
ClosureVal == [type |-> "OT_CLOSURE", obj |-> 1]
ThreadVal(i) == [type |-> "OT_THREAD", obj |-> i]

ThreadIds == 1..MaxThreads
Values == {Null, ObjStr, ClassVal, ClosureVal} \cup {ThreadVal(i) : i \in ThreadIds}

VALUE_IS_NULL(v) == v.type = "VT_NULL"
VALUE_IS_OBJSTR(v) == v.type = "OT_STRING"

\* closure->fn->maxStackSlotUsedNum: the functions of the model all need the
\* same number of slots; a value that is no closure is read through the wrong
\* struct and yields whatever lies there
MaxStackSlotUsedNum(v) == IF v.type = "OT_CLOSURE" THEN {MaxStack} ELSE 1..MaxStack

RECURSIVE BitOr(_, _)
BitOr(a, b) ==
    IF a = 0 THEN b
    ELSE IF b = 0 THEN a
    ELSE (IF a % 2 = 1 \/ b % 2 = 1 THEN 1 ELSE 0) + 2 * BitOr(a \div 2, b \div 2)

ShiftRight(v, n) == v \div (2 ^ n)

\* v |= v >> n
Smear(v, n) == BitOr(v, ShiftRight(v, n))

\* uint32_t arithmetic; the capacities of the model stay far below 2^31, where
\* the final increment cannot wrap
ceilToPowerOf2(v) ==
    Smear(Smear(Smear(Smear(Smear((IF v = 0 THEN v + 1 ELSE v) - 1, 1), 2), 4), 8), 16) + 1

\* ------------------------------------------------------------------- state
VARIABLES
    threads,      \* ObjThread objects, by id
    curThread,    \* vm->curThread (0 is NULL)
    vmResult,     \* "running", "success" (executeInstruction returned),
                  \* "exit" (RUN_ERROR: exit(1)), "undefined" (undefined behaviour)
    upvalues,     \* ObjUpvalue objects, by id
    allModules,   \* vm->allModules: the names of the imported modules
    last,         \* the instruction executed last (history)
    classes,      \* Class objects: their methods buffers
    bound,        \* <<class, symbol>> pairs bound by InstanceMethod/StaticMethod
    dispatch,     \* outcome of the last CallN/SuperN lookup (history)
    allMethodNames, \* vm->allMethodNames: the method signatures, by symbol index
    code,         \* the instructions the compiler has emitted and the VM has yet to run
    module,       \* ObjModule: moduleVarName and moduleVarValue of the compiled module
    cu,           \* CompileUnit: localVars, localVarNum, scopeDepth
    outcome,      \* what the operation executed last gave (history)
    objMap,       \* an ObjMap: capacity, count, entries
    objList       \* an ObjList: its elements buffer (datas, count, capacity)

classVars == <<classes, bound, dispatch>>
compileVars == <<allMethodNames, code, module, cu, outcome>>
objectVars == <<objMap, objList>>
vars == <<threads, curThread, vmResult, upvalues, allModules, last, classes, bound, dispatch,
          allMethodNames, code, module, cu, outcome, objMap, objList>>

\* entries (the stack height each frame was called at) and known (a script
\* holds a reference to the fiber) are history, not fields of ObjThread
NoThread ==
    [alloc |-> FALSE, stack |-> 0, stk |-> <<>>, stackCapacity |-> 0,
     frames |-> <<>>, frameCapacity |-> 0, openUpvalues |-> <<>>,
     caller |-> 0, errorObj |-> Null, entries |-> <<>>, known |-> FALSE]

\* esp - stack: the number of live slots
StackSlots(t) == Len(t.stk)
esp(t) == t.stack + Len(t.stk)
usedFrameNum(t) == Len(t.frames)

\* ------------------------------------------------------- obj_thread.c
prepareFrame(t, closure, stackStart) ==
    [t EXCEPT !.frames = Append(@, [stackStart |-> stackStart, closure |-> closure])]

resetThread(t, closure) ==
    prepareFrame([t EXCEPT !.stk = <<>>, !.openUpvalues = <<>>, !.caller = 0,
                           !.errorObj = Null, !.frames = <<>>],
                 closure, t.stack)

\* maxSlots is objClosure->fn->maxStackSlotUsedNum, stack the address of the
\* newly allocated value stack
newObjThread(closure, maxSlots, stack) ==
    resetThread([NoThread EXCEPT !.alloc = TRUE,
                                 !.frameCapacity = INITIAL_FRAME_NUM,
                                 !.stackCapacity = ceilToPowerOf2(maxSlots + 1),
                                 !.stack = stack],
                closure)


\* ------------------------------------------------------- stack access
\* the 1-based index in stk of the slot at address ptr
SlotIndex(t, ptr) == ptr - t.stack + 1
InStack(t, ptr) == SlotIndex(t, ptr) \in 1..Len(t.stk)

\* POP()/DROP() of n slots
Drop(t, n) == [t EXCEPT !.stk = SubSeq(@, 1, Len(@) - n)]
\* esp[-1] = v
SetTop(t, v) == [t EXCEPT !.stk[Len(t.stk)] = v]
\* the n slots args[0..n-1] below esp
Args(t, n) == SubSeq(t.stk, Len(t.stk) - n + 1, Len(t.stk))

\* The operands of an instruction are temporaries: the compiler discards a
\* captured local with CloseUpvalue only (compiler.c discardLocalVar), so no
\* open upvalue points at one of the top n slots when they are consumed.
Temporaries(t, n) ==
    \A i \in 1..Len(t.openUpvalues) :
        upvalues[t.openUpvalues[i]].localVarPtr < esp(t) - n

\* ------------------------------------------------------- vm.c: upvalues
newObjUpvalue(localVarPtr) ==
    [localVarPtr |-> localVarPtr, closed |-> FALSE, closedUpvalue |-> Null]

\* The walk of closedUpvalue over the list upvs of fiber t: every node from the
\* head on whose localVarPtr >= lastSlot takes the value of its slot and leaves
\* the list. Gives <<rest of the list, upvalue objects>>.
RECURSIVE closedUpvalueWalk(_, _, _, _)
closedUpvalueWalk(t, upvs, ups, lastSlot) ==
    IF upvs # <<>> /\ ups[Head(upvs)].localVarPtr >= lastSlot
    THEN closedUpvalueWalk(t, Tail(upvs),
             [ups EXCEPT ![Head(upvs)] =
                 [localVarPtr |-> -1, closed |-> TRUE,
                  closedUpvalue |-> t.stk[SlotIndex(t, ups[Head(upvs)].localVarPtr)]]],
             lastSlot)
    ELSE <<upvs, ups>>

\* a closedUpvalue that closes the upvalues and leaves them on the list
closedUpvalueListed(t, ups, lastSlot) ==
    <<t, closedUpvalueWalk(t, t.openUpvalues, ups, lastSlot)[2]>>

\* a closedUpvalue that spares the upvalue of lastSlot itself
closedUpvalueAbove(t, ups, lastSlot) ==
    LET w == closedUpvalueWalk(t, t.openUpvalues, ups, lastSlot + 1)
    IN  <<[t EXCEPT !.openUpvalues = w[1]], w[2]>>

\* gives <<fiber, upvalue objects>>; t.stk is the memory the pointers are read from
closedUpvalue(t, ups, lastSlot) ==
    LET w == closedUpvalueWalk(t, t.openUpvalues, ups, lastSlot)
    IN  <<[t EXCEPT !.openUpvalues = w[1]], w[2]>>

\* the number of nodes the while loop of createOpenUpvalue steps over
RECURSIVE SkipGreater(_, _, _)
SkipGreater(upvs, ups, localVarPtr) ==
    IF upvs # <<>> /\ ups[Head(upvs)].localVarPtr > localVarPtr
    THEN 1 + SkipGreater(Tail(upvs), ups, localVarPtr)
    ELSE 0

\* a createOpenUpvalue that makes every new upvalue the head of the list
createOpenUpvalueAtHead(t, ups, localVarPtr) ==
    <<[t EXCEPT !.openUpvalues = <<Len(ups) + 1>> \o t.openUpvalues],
      Append(ups, newObjUpvalue(localVarPtr))>>

\* gives <<fiber, upvalue objects>>
createOpenUpvalue(t, ups, localVarPtr) ==
    LET new == Len(ups) + 1
        k == SkipGreater(t.openUpvalues, ups, localVarPtr)
        upvs == t.openUpvalues
    IN  IF upvs = <<>>
        THEN <<[t EXCEPT !.openUpvalues = <<new>>], Append(ups, newObjUpvalue(localVarPtr))>>
        ELSE IF k < Len(upvs) /\ ups[upvs[k + 1]].localVarPtr = localVarPtr
        THEN <<t, ups>>
        ELSE <<[t EXCEPT !.openUpvalues =
                    SubSeq(upvs, 1, k) \o <<new>> \o SubSeq(upvs, k + 1, Len(upvs))],
               Append(ups, newObjUpvalue(localVarPtr))>>

\* ------------------------------------------------------- vm.c: frames
\* stack is the address memManager returns for the enlarged block
ensureStack(t, ups, needSlots, stack) ==
    IF t.stackCapacity > needSlots THEN <<t, ups>>
    ELSE LET offset == stack - t.stack
         IN  <<[t EXCEPT !.stack = stack,
                         !.stackCapacity = ceilToPowerOf2(needSlots),
                         !.frames = [i \in 1..Len(t.frames) |->
                                        [t.frames[i] EXCEPT !.stackStart = @ + offset]]],
               [u \in 1..Len(ups) |->
                   IF \E i \in 1..Len(t.openUpvalues) : t.openUpvalues[i] = u
                   THEN [ups[u] EXCEPT !.localVarPtr = @ + offset]
                   ELSE ups[u]]>>

\* a createFrame whose frame starts above the receiver and the arguments
createFrameAboveArgs(t, ups, closure, maxSlots, argNum, stack) ==
    LET t1 == IF usedFrameNum(t) + 1 > t.frameCapacity
              THEN [t EXCEPT !.frameCapacity = @ * 2] ELSE t
        e == ensureStack(t1, ups, StackSlots(t1) + maxSlots, stack)
    IN  <<prepareFrame(e[1], closure, esp(e[1])), e[2]>>

createFrame(t, ups, closure, maxSlots, argNum, stack) ==
    LET t1 == IF usedFrameNum(t) + 1 > t.frameCapacity
              THEN [t EXCEPT !.frameCapacity = @ * 2] ELSE t
        e == ensureStack(t1, ups, StackSlots(t1) + maxSlots, stack)
    IN  <<prepareFrame(e[1], closure, esp(e[1]) - argNum), e[2]>>


\* ------------------------------------------------------- core.c: natives
\* A native method gives [T: the fibers, cur: vm->curThread, ret: its return
\* value, st: "ok", or "exit" after RUN_ERROR, or "undefined"]. c is
\* vm->curThread when it is entered and args[1] is args[0] of the C code.
Prim(T, cur, ret, st) == [T |-> T, cur |-> cur, ret |-> ret, st |-> st]

\* vmPtr->curThread->errorObj = <string>; return false
SET_ERROR_FALSE(T, c) == Prim([T EXCEPT ![c].errorObj = ObjStr], c, FALSE, "ok")

\* RET_VALUE: args[0] = value; return true
RET_VALUE(T, c, argNum, value) ==
    Prim([T EXCEPT ![c].stk[Len(T[c].stk) - argNum + 1] = value], c, TRUE, "ok")

\* VALUE_TO_OBJCLOSURE(arg) as a truth value: the pointer of the value's union
validateFn(arg) == ~VALUE_IS_NULL(arg)

validateString(arg) == VALUE_IS_OBJSTR(arg)

\* new is the id of the allocated fiber, maxSlots what is read as the
\* maxStackSlotUsedNum of args[0], stack the address of the new value stack
primThreadNew(T, c, args, new, maxSlots, stack) ==
    IF ~validateFn(args[2])
    THEN SET_ERROR_FALSE(T, c)
    ELSE LET objThread == [newObjThread(args[1], maxSlots, stack) EXCEPT
                               !.stk = <<Null>>, !.known = TRUE]
         IN  RET_VALUE([T EXCEPT ![new] = objThread], c, 2, ThreadVal(new))

primThreadAbort(T, c, args) ==
    Prim([T EXCEPT ![c].errorObj = args[2]], c, VALUE_IS_NULL(args[2]), "ok")

primThreadCurrent(T, c) == RET_VALUE([T EXCEPT ![c].known = TRUE], c, 1, ThreadVal(c))

\* a suspend that reports a normal return
primThreadSuspendTrue(T, c) == Prim(T, 0, TRUE, "ok")

primThreadSuspend(T, c) == Prim(T, 0, FALSE, "ok")

primThreadYieldWithArg(T, c, args) ==
    LET caller == T[c].caller
        T1 == [T EXCEPT ![c].caller = 0]
    IN  IF caller = 0 THEN Prim(T1, 0, FALSE, "ok")
        ELSE IF Len(T1[caller].stk) = 0 THEN Prim(T1, caller, FALSE, "undefined")
        ELSE LET T2 == [T1 EXCEPT ![caller] = SetTop(T1[caller], args[2])]
             IN  Prim([T2 EXCEPT ![c] = Drop(T2[c], 1)], caller, FALSE, "ok")

primThreadYieldWithoutArg(T, c) ==
    LET caller == T[c].caller
        T1 == [T EXCEPT ![c].caller = 0]
    IN  IF caller = 0 THEN Prim(T1, 0, FALSE, "ok")
        ELSE IF Len(T1[caller].stk) = 0 THEN Prim(T1, caller, FALSE, "undefined")
        ELSE Prim([T1 EXCEPT ![caller] = SetTop(T1[caller], Null)], caller, FALSE, "ok")

\* a switchThread without the test of nextThread->errorObj
switchThreadAborted(T, c, nextThread, args, withArg) ==
    IF T[nextThread].caller # 0 THEN Prim(T, c, FALSE, "exit")
    ELSE LET T1 == [T EXCEPT ![nextThread].caller = c]
         IN  IF usedFrameNum(T1[nextThread]) = 0 THEN SET_ERROR_FALSE(T1, c)
             ELSE LET T2 == IF withArg THEN [T1 EXCEPT ![c] = Drop(T1[c], 1)] ELSE T1
                  IN  IF Len(T2[nextThread].stk) = 0
                      THEN Prim(T2, c, FALSE, "undefined")
                      ELSE Prim([T2 EXCEPT ![nextThread] =
                                     SetTop(T2[nextThread],
                                            IF withArg THEN args[2] ELSE Null)],
                                nextThread, FALSE, "ok")

switchThread(T, c, nextThread, args, withArg) ==
    IF T[nextThread].caller # 0 THEN Prim(T, c, FALSE, "exit")
    ELSE LET T1 == [T EXCEPT ![nextThread].caller = c]
         IN  IF usedFrameNum(T1[nextThread]) = 0 THEN SET_ERROR_FALSE(T1, c)
             ELSE IF ~VALUE_IS_NULL(T1[nextThread].errorObj) THEN SET_ERROR_FALSE(T1, c)
             ELSE LET T2 == IF withArg THEN [T1 EXCEPT ![c] = Drop(T1[c], 1)] ELSE T1
                  IN  IF Len(T2[nextThread].stk) = 0
                      THEN Prim(T2, c, FALSE, "undefined")
                      ELSE Prim([T2 EXCEPT ![nextThread] =
                                     SetTop(T2[nextThread],
                                            IF withArg THEN args[2] ELSE Null)],
                                nextThread, FALSE, "ok")

\* a call(_) that passes no argument on
primThreadCallWithArgDropped(T, c, args) == switchThread(T, c, args[1].obj, args, FALSE)

primThreadCallWithArg(T, c, args) == switchThread(T, c, args[1].obj, args, TRUE)

primThreadCallWithoutArg(T, c, args) == switchThread(T, c, args[1].obj, args, FALSE)

\* What getModuleVariable finds for the two names: the module is not loaded,
\* the module has no such variable, or the variable's value.
ModuleLookups ==
    {[loaded |-> FALSE, index |-> -1, value |-> Null],
     [loaded |-> TRUE, index |-> -1, value |-> Null]}
    \cup {[loaded |-> TRUE, index |-> 0, value |-> v] : v \in {Null, ObjStr}}

\* gives <<result, the fibers>>
getModuleVariable(T, c, lookup) ==
    IF ~lookup.loaded THEN <<Null, [T EXCEPT ![c].errorObj = ObjStr]>>
    ELSE IF lookup.index = -1 THEN <<Null, [T EXCEPT ![c].errorObj = ObjStr]>>
    ELSE <<lookup.value, T>>

primSystemGetModuleVariable(T, c, args, lookup) ==
    IF ~validateString(args[2]) THEN SET_ERROR_FALSE(T, c)
    ELSE IF ~validateString(args[3]) THEN SET_ERROR_FALSE(T, c)
    ELSE LET r == getModuleVariable(T, c, lookup)
         IN  IF VALUE_IS_NULL(r[1]) THEN Prim(r[2], c, FALSE, "ok")
             ELSE RET_VALUE(r[2], c, 3, r[1])

\* an importModule that loads the module whether it is registered or not
importModuleAgain(T, modules, moduleName, new) ==
    <<ThreadVal(new),
      [T EXCEPT ![new] = newObjThread(ClosureVal, MaxStack, 0)],
      modules \cup {moduleName}>>

\* importModule and loadModule: Null when the module is in vm->allModules,
\* else the fiber new, made to run the compiled module (loadModule ends
\* without a return statement; the model takes the caller to receive the fiber
\* it has just made). Gives <<result, the fibers, vm->allModules>>.
importModule(T, modules, moduleName, new) ==
    IF moduleName \in modules THEN <<Null, T, modules>>
    ELSE <<ThreadVal(new),
           [T EXCEPT ![new] = newObjThread(ClosureVal, MaxStack, 0)],
           modules \cup {moduleName}>>

\* gives <<outcome of the native, vm->allModules>>
primSystemImportModule(T, c, args, modules, new) ==
    IF ~validateString(args[2]) THEN <<SET_ERROR_FALSE(T, c), modules>>
    ELSE LET r == importModule(T, modules, args[2], new)
             result == r[1]
             T1 == r[2]
         IN  IF VALUE_IS_NULL(result) THEN <<RET_VALUE(T1, c, 2, Null), r[3]>>
             ELSE IF ~VALUE_IS_NULL(T1[c].errorObj) THEN <<Prim(T1, c, FALSE, "ok"), r[3]>>
             ELSE <<Prim([T1 EXCEPT ![c] = Drop(T1[c], 1), ![result.obj].caller = c],
                         result.obj, FALSE, "ok"),
                    r[3]>>

\* ------------------------------------------------------- method tables
\* Method.type; "junk" is a cell that was allocated and never written
\* ------------------------------------------------------- core.c: symbol tables
\* A string is a sequence of characters; a SymbolTable is a sequence of
\* [str, length]. Indices are those of the code (from 0), -1 is not found.
BoolToInt(b) == IF b THEN 1 ELSE 0

\* the byte k of a string, which ends with the byte 0
ByteAt(str, k) == IF k <= Len(str) THEN str[k] ELSE "NUL"

\* memcmp(a, b, n) == 0
memcmpEqual(a, b, n) == \A k \in 1..n : ByteAt(a, k) = ByteAt(b, k)

\* the test of the loop: length == datas[index].length == length, which C
\* reads as (length == datas[index].length) == length
RECURSIVE getIndexFrom(_, _, _, _)
getIndexFrom(table, symbol, length, index) ==
    IF index >= Len(table) THEN -1
    ELSE IF /\ BoolToInt(length = table[index + 1].length) = length
            /\ memcmpEqual(table[index + 1].str, symbol, length)
         THEN index
         ELSE getIndexFrom(table, symbol, length, index + 1)

getIndexFromSymbolTable(table, symbol, length) == getIndexFrom(table, symbol, length, 0)

\* gives <<table, index>>
addSymbol(table, symbol, length) ==
    <<Append(table, [str |-> SubSeq(symbol, 1, length), length |-> length]), Len(table)>>

ensureSymbolExist(table, symbol, length) ==
    IF getIndexFromSymbolTable(table, symbol, length) = -1
    THEN addSymbol(table, symbol, length)
    ELSE <<table, getIndexFromSymbolTable(table, symbol, length)>>

\* ------------------------------------------------------- compiler.c: signatures
RECURSIVE Params(_)
Params(n) == IF n = 0 THEN <<>> ELSE <<"_", ",">> \o Params(n - 1)

\* what sign2String writes after the name, for a getter, a method and a
\* constructor
SignSuffix(sign) ==
    IF sign.type = "SIGN_GETTER" THEN <<>>
    ELSE IF sign.argNum = 0 THEN <<"(", ")">>
    ELSE <<"(">> \o SubSeq(Params(sign.argNum), 1, 2 * sign.argNum - 1) \o <<")">>

\* sign2String passes the character buf[pos] to memcpy as the destination of
\* the name: the name is written wherever that value points (undefined) and
\* never into buf, whose first bytes stay as they were
sign2String(sign, buf) == SubSeq(buf, 1, sign.length) \o SignSuffix(sign)

Sign(type, name, argNum) ==
    [type |-> type, name |-> name, length |-> Len(name), argNum |-> argNum]

\* ------------------------------------------------------- method tables
MethodTypes == {"MT_NONE", "MT_PRIMITIVE", "MT_SCRIPT", "MT_FN_CALL"}

\* a MethodBuffer is [datas, count]; its capacity is the length of datas
capacity(buf) == Len(buf.datas)

MethodBufferInit == [datas |-> <<>>, count |-> 0]

\* the cells of the buffer after the fill: newCapacity cells, the old ones kept,
\* data in the cells count .. newCounts - 1, the rest of a new block unset
filledDatas(buf, data, newCounts, newCapacity) ==
    [i \in 1..newCapacity |->
        IF i <= buf.count THEN buf.datas[i]
        ELSE IF i <= newCounts THEN data
        ELSE IF i <= capacity(buf) THEN buf.datas[i]
        ELSE "junk"]

MethodBufferFillWrite(buf, data, fillCount) ==
    [datas |-> filledDatas(buf, data, buf.count + fillCount,
                           IF buf.count + fillCount > capacity(buf)
                           THEN ceilToPowerOf2(buf.count + fillCount)
                           ELSE capacity(buf)),
     count |-> buf.count + fillCount]

\* objHeader.class is meta and superClass the base class (0 is NULL). parent
\* (the class it was declared to extend) and ownFields (the fields its
\* definition declares) are history, not fields of Class.
newRawClass(fieldNum) ==
    [meta |-> 0, methods |-> MethodBufferInit, superClass |-> 0, fieldNum |-> fieldNum,
     parent |-> 0, ownFields |-> fieldNum]

\* class->methods.datas[index] = method: gives <<class, "ok">>, or "undefined"
\* when datas[index] lies outside the block of datas
storeMethod(class, index, method) ==
    IF index < capacity(class.methods)
    THEN <<[class EXCEPT !.methods.datas[index + 1] = method], "ok">>
    ELSE <<class, "undefined">>

bindMethod(class, index, method) ==
    storeMethod(IF index > class.methods.count
                THEN [class EXCEPT !.methods =
                         MethodBufferFillWrite(class.methods, "MT_NONE",
                                               index - class.methods.count + 1)]
                ELSE class,
                index, method)

\* the loop of bindSuperClass from idx on; r is what the bindMethod of idx gave
RECURSIVE bindSuperClassFrom(_, _, _), bindSuperClassNext(_, _, _)
bindSuperClassFrom(subClass, superClass, idx) ==
    IF idx >= superClass.methods.count THEN <<subClass, "ok">>
    ELSE bindSuperClassNext(bindMethod(subClass, idx, superClass.methods.datas[idx + 1]),
                            superClass, idx)

bindSuperClassNext(r, superClass, idx) ==
    IF r[2] # "ok" THEN r ELSE bindSuperClassFrom(r[1], superClass, idx + 1)

\* self is the id of subClass
bindSuperClass(subClass, superClass, self) ==
    bindSuperClassFrom([subClass EXCEPT !.superClass = self,
                                        !.fieldNum = superClass.fieldNum],
                       superClass, 0)

\* vm->classOfClass
classOfClass == 2

\* m and c are what bindSuperClass gave for the meta class and for the class
ClassPair(m, c) == <<m[1], c[1], IF m[2] # "ok" THEN m[2] ELSE c[2]>>

\* gives <<meta class, class, "ok" or "undefined">>; metaId is the id the meta
\* class gets
newClass(C, superClass, fieldNum, metaId) ==
    ClassPair(bindSuperClass([newRawClass(0) EXCEPT !.parent = classOfClass],
                             C[classOfClass], metaId),
              bindSuperClass([newRawClass(fieldNum) EXCEPT !.meta = metaId,
                                                           !.parent = superClass],
                             C[superClass], metaId + 1))

\* RUN_ERROR when the fields of the class and of its base class are too many
\* (the classes of the model are no builtin classes)
validateSuperClass(superClass, fieldNum) ==
    IF superClass.fieldNum + fieldNum > MAX_FIELD_NUM THEN "exit" ELSE "ok"

\* primObjectIs: the loop over baseClass, which ends when it finds thisClass
\* or NULL; a chain that comes back to a class it has passed never ends
RECURSIVE isWalk(_, _, _, _)
isWalk(C, thisClass, baseClass, fuel) ==
    IF baseClass = 0 THEN "false"
    ELSE IF thisClass = baseClass THEN "true"
    ELSE IF fuel = 0 THEN "diverges"
    ELSE isWalk(C, thisClass, C[baseClass].superClass, fuel - 1)

\* thisClass is the class of the receiver args[0], X the class args[1]
primObjectIs(C, thisClass, X) == isWalk(C, thisClass, X, Len(C))

\* the fields of the new instance; the loop that sets them to Null does not
\* advance idx and never ends when the class has a field
newObjInstance(class) == IF class.fieldNum = 0 THEN <<>> ELSE "diverges"

\* the class a method is bound to by bindMethodAndPatch
BindTarget(C, opCode, class) == IF opCode = "StaticMethod" THEN C[class].meta ELSE class

\* CallN/SuperN: what the test of the method finds for index in class, read
\* being what a cell that was never written yields. Gives
\* [kind, outcome: "error" (RUN_ERROR), "dispatched" or "undefined"].
lookupMethod(class, index, read) ==
    IF index > class.methods.count THEN [kind |-> "unread", outcome |-> "error"]
    ELSE IF index >= capacity(class.methods) THEN [kind |-> "unread", outcome |-> "undefined"]
    ELSE LET cell == class.methods.datas[index + 1]
             type == IF cell = "junk" THEN read ELSE cell
         IN  [kind |-> type, outcome |-> IF type = "MT_NONE" THEN "error" ELSE "dispatched"]

\* ------------------------------------------------------- vm.c: dispatch loop
\* The MT_PRIMITIVE case of CallN: what the loop does with the outcome r of
\* the native that fiber c called with argNum arguments.
\* Gives <<threads, vm->curThread, vmResult>>.
PrimitiveCall(c, argNum, r) ==
    IF r.st # "ok" THEN <<r.T, r.cur, r.st>>
    ELSE IF r.ret THEN <<[r.T EXCEPT ![c] = Drop(r.T[c], argNum - 1)], r.cur, "running">>
    ELSE LET raised == ~VALUE_IS_NULL(r.T[c].errorObj)
         IN  IF raised /\ Len(r.T[c].stk) = 0 THEN <<r.T, r.cur, "undefined">>
             ELSE LET T1 == IF raised THEN [r.T EXCEPT ![c] = SetTop(r.T[c], Null)] ELSE r.T
                  IN  IF r.cur = 0 THEN <<T1, r.cur, "success">>
                      ELSE IF usedFrameNum(T1[r.cur]) = 0 THEN <<T1, r.cur, "undefined">>
                      ELSE <<T1, r.cur, "running">>


\* ------------------------------------------------------- instructions
NoLast ==
    [op |-> "none", th |-> 0, ret |-> "none", argNum |-> 0, tgt |-> 0, val |-> Null,
     ptr |-> 0, entry |-> 0, caller |-> 0, outermost |-> FALSE,
     tgtUsedFrameNum |-> 0, tgtErrorObj |-> Null, tgtCaller |-> 0]

Running == vmResult = "running" /\ curThread # 0
cur == threads[curThread]
curFrame == cur.frames[Len(cur.frames)]
\* esp - stackStart: the slots of the running function
FrameSlots == esp(cur) - curFrame.stackStart

Allocated == {i \in ThreadIds : threads[i].alloc}

\* what LoadConstant, LoadLocalVar and LoadModuleVar can push: a fiber only
\* once Thread.new or Thread.current has handed it to a script
Loadable ==
    {Null, ObjStr, ClassVal} \cup {ThreadVal(i) : i \in {j \in Allocated : threads[j].known}}

Step(T, c, res) ==
    /\ threads' = T
    /\ curThread' = c
    /\ vmResult' = res
    /\ UNCHANGED compileVars
    /\ UNCHANGED objectVars

\* PushNull, LoadConstant, LoadLocalVar, LoadModuleVar: PUSH(value)
Push(v, limit) ==
    /\ Running
    /\ Len(cur.stk) < limit /\ Len(cur.stk) < cur.stackCapacity
    /\ Step([threads EXCEPT ![curThread].stk = Append(@, v)], curThread, "running")
    /\ last' = [NoLast EXCEPT !.op = "Push", !.th = curThread]
    /\ UNCHANGED <<upvalues, allModules, classVars>>

\* OPCODE_POP: DROP()
Pop ==
    /\ Running
    /\ FrameSlots >= 2 /\ Temporaries(cur, 1)
    /\ Step([threads EXCEPT ![curThread] = Drop(cur, 1)], curThread, "running")
    /\ last' = [NoLast EXCEPT !.op = "Pop", !.th = curThread]
    /\ UNCHANGED <<upvalues, allModules, classVars>>

\* CallN/SuperN, MT_SCRIPT and MT_FN_CALL: createFrame for the method's closure
\* maxSlots is the callee's maxStackSlotUsedNum
CallScript(argNum, maxSlots, stack) ==
    /\ Running
    /\ FrameSlots >= argNum /\ Temporaries(cur, argNum)
    /\ usedFrameNum(cur) < MaxFrames
    /\ LET r == createFrame(cur, upvalues, ClosureVal, maxSlots, argNum, stack)
       IN  /\ Step([threads EXCEPT ![curThread] =
                        [r[1] EXCEPT !.entries = Append(@, Len(cur.stk) - argNum)]],
                   curThread, "running")
           /\ upvalues' = r[2]
    /\ last' = [NoLast EXCEPT !.op = "CallScript", !.th = curThread, !.argNum = argNum]
    /\ UNCHANGED <<allModules, classVars>>

\* OPCODE_RETURN
Return ==
    /\ Running
    /\ FrameSlots >= 1 /\ Temporaries(cur, 1)
    /\ LET c == curThread
           retVal == cur.stk[Len(cur.stk)]
           stackStart == curFrame.stackStart
           popped == [Drop(cur, 1) EXCEPT !.frames = SubSeq(@, 1, Len(@) - 1),
                                         !.entries = SubSeq(@, 1, Len(@) - 1)]
           cl == closedUpvalue(popped, upvalues, stackStart)
           t == cl[1]
           T == [threads EXCEPT ![c] = t]
       IN  /\ upvalues' = cl[2]
           /\ last' = [NoLast EXCEPT !.op = "Return", !.th = c, !.val = retVal,
                          !.ptr = stackStart, !.caller = cur.caller,
                          !.outermost = (usedFrameNum(t) = 0),
                          !.entry = IF cur.entries = <<>> THEN 0
                                    ELSE cur.entries[Len(cur.entries)]]
           /\ IF usedFrameNum(t) = 0
              THEN IF t.caller = 0
                   THEN Step([T EXCEPT ![c].stk = <<retVal>>], c, "success")
                   ELSE IF Len(T[t.caller].stk) = 0 \/ usedFrameNum(T[t.caller]) = 0
                   THEN Step(T, t.caller, "undefined")
                   ELSE Step([T EXCEPT ![t.caller] = SetTop(T[t.caller], retVal)], t.caller, "running")
              ELSE Step([T EXCEPT ![c].stk =
                             Append(SubSeq(t.stk, 1, SlotIndex(t, stackStart) - 1), retVal)],
                        c, "running")
    /\ UNCHANGED <<allModules, classVars>>

\* OPCODE_CREATE_CLOSURE for a function of at most one upvalue: capture is 0
\* (no upvalue, or one taken over from the enclosing closure) or the 1-based
\* number of the captured local of the running function
CreateClosure(capture, limit) ==
    /\ Running
    /\ Len(cur.stk) < limit /\ Len(cur.stk) < cur.stackCapacity
    /\ capture <= FrameSlots
    /\ LET pushed == [cur EXCEPT !.stk = Append(@, ClosureVal)]
           localVarPtr == curFrame.stackStart + capture - 1
           r == IF capture = 0 THEN <<pushed, upvalues>>
                ELSE createOpenUpvalue(pushed, upvalues, localVarPtr)
       IN  /\ Len(r[2]) <= MaxUpvalues
           /\ Step([threads EXCEPT ![curThread] = r[1]], curThread, "running")
           /\ upvalues' = r[2]
    /\ last' = [NoLast EXCEPT !.op = "CreateClosure", !.th = curThread]
    /\ UNCHANGED <<allModules, classVars>>

\* OPCODE_CLOSE_UPVALUE
CloseUpvalue ==
    /\ Running
    /\ FrameSlots >= 2
    /\ LET r == closedUpvalue(cur, upvalues, esp(cur) - 1)
       IN  /\ Step([threads EXCEPT ![curThread] = Drop(r[1], 1)], curThread, "running")
           /\ upvalues' = r[2]
    /\ last' = [NoLast EXCEPT !.op = "CloseUpvalue", !.th = curThread,
                              !.ptr = esp(cur) - 1]
    /\ UNCHANGED <<allModules, classVars>>

\* CallN, MT_PRIMITIVE: the native whose outcome is r, called with argNum
\* arguments
PrimitiveStep(op, argNum, r, l) ==
    LET n == PrimitiveCall(curThread, argNum, r)
    IN  /\ Step(n[1], n[2], n[3])
        /\ last' = [l EXCEPT !.op = op, !.th = curThread, !.argNum = argNum,
                            !.ret = IF r.st = "exit" THEN "none"
                                    ELSE IF r.ret THEN "true" ELSE "false",
                            !.caller = cur.caller,
                            !.entry = Len(cur.stk) - argNum]
        /\ UNCHANGED <<upvalues, classVars>>

Primitive(op, argNum, r, l) ==
    /\ PrimitiveStep(op, argNum, r, l)
    /\ UNCHANGED allModules

\* the operands of a native call with argNum arguments whose receiver is recv
Operands(argNum) ==
    /\ Running
    /\ FrameSlots >= argNum /\ Temporaries(cur, argNum)

ThreadNew(new, maxSlots, stack) ==
    /\ Operands(2) /\ Args(cur, 2)[1] = ClassVal
    /\ new \in ThreadIds \ Allocated
    /\ \A i \in ThreadIds \ Allocated : new <= i
    /\ maxSlots \in MaxStackSlotUsedNum(Args(cur, 2)[1])
    /\ Primitive("ThreadNew", 2,
                 primThreadNew(threads, curThread, Args(cur, 2), new, maxSlots, stack),
                 [NoLast EXCEPT !.tgt = new, !.val = Args(cur, 2)[2]])

ThreadAbort ==
    /\ Operands(2) /\ Args(cur, 2)[1] = ClassVal
    /\ Primitive("ThreadAbort", 2, primThreadAbort(threads, curThread, Args(cur, 2)),
                 [NoLast EXCEPT !.val = Args(cur, 2)[2]])

ThreadCurrent ==
    /\ Operands(1) /\ Args(cur, 1)[1] = ClassVal
    /\ Primitive("ThreadCurrent", 1, primThreadCurrent(threads, curThread), NoLast)

ThreadSuspend ==
    /\ Operands(1) /\ Args(cur, 1)[1] = ClassVal
    /\ Primitive("ThreadSuspend", 1, primThreadSuspend(threads, curThread), NoLast)

ThreadYieldWithArg ==
    /\ Operands(2) /\ Args(cur, 2)[1] = ClassVal
    /\ Primitive("ThreadYield", 2, primThreadYieldWithArg(threads, curThread, Args(cur, 2)),
                 [NoLast EXCEPT !.val = Args(cur, 2)[2]])

ThreadYieldWithoutArg ==
    /\ Operands(1) /\ Args(cur, 1)[1] = ClassVal
    /\ Primitive("ThreadYield", 1, primThreadYieldWithoutArg(threads, curThread),
                 [NoLast EXCEPT !.val = Null])

\* the fiber a call is invoked on, as the instruction finds it
Target(l, nextThread) ==
    [l EXCEPT !.tgt = nextThread,
              !.tgtUsedFrameNum = usedFrameNum(threads[nextThread]),
              !.tgtErrorObj = threads[nextThread].errorObj,
              !.tgtCaller = threads[nextThread].caller]

ThreadCallWithArg ==
    /\ Operands(2) /\ Args(cur, 2)[1].type = "OT_THREAD"
    /\ Primitive("ThreadCall", 2, primThreadCallWithArg(threads, curThread, Args(cur, 2)),
                 Target([NoLast EXCEPT !.val = Args(cur, 2)[2]], Args(cur, 2)[1].obj))

ThreadCallWithoutArg ==
    /\ Operands(1) /\ Args(cur, 1)[1].type = "OT_THREAD"
    /\ Primitive("ThreadCall", 1, primThreadCallWithoutArg(threads, curThread, Args(cur, 1)),
                 Target([NoLast EXCEPT !.val = Null], Args(cur, 1)[1].obj))

SystemImportModule(new) ==
    /\ Operands(2) /\ Args(cur, 2)[1] = ClassVal
    /\ Args(cur, 2)[2] \in allModules \/ new \in ThreadIds \ Allocated
    /\ \A i \in ThreadIds \ Allocated : new <= i
    /\ LET r == primSystemImportModule(threads, curThread, Args(cur, 2), allModules, new)
       IN  /\ PrimitiveStep("ImportModule", 2, r[1],
                            [NoLast EXCEPT !.tgt = new, !.val = Args(cur, 2)[2]])
           /\ allModules' = r[2]

SystemGetModuleVariable(lookup) ==
    /\ Operands(3) /\ Args(cur, 3)[1] = ClassVal
    /\ Primitive("GetModuleVariable", 3,
                 primSystemGetModuleVariable(threads, curThread, Args(cur, 3), lookup),
                 [NoLast EXCEPT !.val = lookup.value])

\* ------------------------------------------------------- specifications
\* executeModule: the module's fiber, made by loadModule, is run
InitVM ==
    /\ threads = [i \in ThreadIds |->
                     IF i = 1 THEN newObjThread(ClosureVal, MaxStack, 0) ELSE NoThread]
    /\ curThread = 1
    /\ vmResult = "running"
    /\ upvalues = <<>>
    /\ allModules = {}
    /\ last = NoLast

InitClass ==
    /\ classes = <<>>
    /\ bound = {}
    /\ dispatch = [op |-> "none"]

\* a map and a list as newObjMap and newObjList make them
newObjMap == [capacity |-> 0, count |-> 0, entries |-> <<>>]

\* a cell that was allocated and never written
Junk == [type |-> "junk", obj |-> 0]

newObjList(elementNum) ==
    [datas |-> [i \in 1..elementNum |-> Junk], count |-> elementNum,
     capacity |-> elementNum]

InitObjects ==
    /\ objMap = newObjMap
    /\ objList = newObjList(0)

\* nothing is being compiled
NoOutcome == [op |-> "none"]
NoModule == [moduleVarName |-> <<>>, moduleVarValue |-> <<>>]
NoCompileUnit == [localVars |-> <<>>, scopeDepth |-> -1]

InitCompile ==
    /\ InitObjects
    /\ allMethodNames = <<>>
    /\ code = <<>>
    /\ module = NoModule
    /\ cu = NoCompileUnit
    /\ outcome = NoOutcome

Init == InitVM /\ InitClass /\ InitCompile

\* Spec: the fibers, each running its outermost function (the functions a
\* fiber calls are the matter of SpecFrame).
Next ==
    \/ \E v \in Loadable : Push(v, MaxStack)
    \/ Pop
    \/ Return
    \/ \E new \in ThreadIds, maxSlots \in 1..MaxStack :
           ThreadNew(new, maxSlots, 0)
    \/ ThreadAbort
    \/ ThreadCurrent
    \/ ThreadSuspend
    \/ ThreadYieldWithArg
    \/ ThreadYieldWithoutArg
    \/ ThreadCallWithArg
    \/ ThreadCallWithoutArg
    \/ \E new \in ThreadIds : SystemImportModule(new)

Spec == Init /\ [][Next]_vars

\* SpecFrame: the frames and the open upvalues of one fiber, whose value stack
\* moves or stays when it grows.
InitFrame ==
    /\ threads = [i \in ThreadIds |->
                     IF i = 1 THEN newObjThread(ClosureVal, 1, 0) ELSE NoThread]
    /\ curThread = 1
    /\ vmResult = "running"
    /\ upvalues = <<>>
    /\ allModules = {}
    /\ last = NoLast
    /\ InitClass
    /\ InitCompile

NextFrame ==
    \/ \E v \in {Null, ObjStr} : Push(v, MaxFrameStack)
    \/ Pop
    \/ \E argNum \in 1..MaxArgNum, maxSlots \in 1..MaxFrameStack, stack \in StackBases :
           CallScript(argNum, maxSlots, stack)
    \/ Return
    \/ \E capture \in 0..MaxFrameStack : CreateClosure(capture, MaxFrameStack)
    \/ CloseUpvalue

SpecFrame == InitFrame /\ [][NextFrame]_vars

\* SpecNative: the natives, called by the module's fiber on any operands its
\* code can have pushed, and by the fibers they resume.
OperandStacks ==
    UNION {[1..n -> {Null, ObjStr, ClassVal, ClosureVal, ThreadVal(1)}] : n \in 1..MaxOperands}

InitNative ==
    /\ \E s \in OperandStacks :
           threads = [i \in ThreadIds |->
                         IF i = 1
                         THEN [newObjThread(ClosureVal, MaxOperands, 0) EXCEPT
                                  !.stk = s, !.known = TRUE]
                         ELSE NoThread]
    /\ curThread = 1
    /\ vmResult = "running"
    /\ upvalues = <<>>
    /\ allModules = {}
    /\ last = NoLast
    /\ InitClass
    /\ InitCompile

NextNative ==
    \/ \E new \in ThreadIds, maxSlots \in 1..MaxStack :
           ThreadNew(new, maxSlots, 0)
    \/ ThreadAbort
    \/ ThreadCurrent
    \/ ThreadSuspend
    \/ ThreadYieldWithArg
    \/ ThreadYieldWithoutArg
    \/ ThreadCallWithArg
    \/ ThreadCallWithoutArg
    \/ \E new \in ThreadIds : SystemImportModule(new)
    \/ \E lookup \in ModuleLookups : SystemGetModuleVariable(lookup)

SpecNative == InitNative /\ [][NextNative]_vars

\* SpecClass: the method tables of the classes, from the object class and the
\* class class as defineClass makes them.
NoDispatch == [op |-> "none", index |-> 0, count |-> 0, kind |-> "unread",
               outcome |-> "none"]

ClassStep ==
    /\ vmResult = "running"
    /\ UNCHANGED <<objMap, objList, threads, curThread, upvalues, allModules, last, compileVars>>

\* OPCODE_CREATE_CLASS
createClass(superClass, fieldNum, limit) ==
    /\ Len(classes) + 2 <= limit
    /\ IF validateSuperClass(classes[superClass], fieldNum) # "ok"
       THEN vmResult' = "exit" /\ UNCHANGED <<classes, bound>>
       ELSE LET metaId == Len(classes) + 1
                r == newClass(classes, superClass, fieldNum, metaId)
            IN  /\ classes' = classes \o <<r[1], r[2]>>
                /\ vmResult' = IF r[3] = "ok" THEN "running" ELSE r[3]
                /\ bound' = bound \cup
                       {<<metaId, b[2], "inherited">> : b \in {x \in bound : x[1] = classOfClass}}
                       \cup {<<metaId + 1, b[2], "inherited">> : b \in {x \in bound : x[1] = superClass}}

CreateClass(superClass, fieldNum) ==
    /\ ClassStep
    /\ createClass(superClass, fieldNum, MaxClasses)
    /\ UNCHANGED dispatch

\* OPCODE_INSTANCE_METHOD and OPCODE_STATIC_METHOD: bindMethodAndPatch, on the
\* class whose definition is being executed (a class made by newClass)
bindMethodAndPatch(opCode, class, methodIndex) ==
    LET target == BindTarget(classes, opCode, class)
        r == bindMethod(classes[target], methodIndex, "MT_SCRIPT")
    IN  /\ target # 0
        /\ classes' = [classes EXCEPT ![target] = r[1]]
        /\ vmResult' = IF r[2] = "ok" THEN "running" ELSE r[2]
        /\ bound' = bound \cup {<<target, methodIndex, "own">>}

BindMethodAndPatch(opCode, class, methodIndex) ==
    /\ ClassStep
    /\ classes[class].meta # 0
    /\ bindMethodAndPatch(opCode, class, methodIndex)
    /\ UNCHANGED dispatch

InstanceMethod(class, methodIndex) == BindMethodAndPatch("InstanceMethod", class, methodIndex)

StaticMethod(class, methodIndex) == BindMethodAndPatch("StaticMethod", class, methodIndex)

Lookup(op, class, index, read) ==
    /\ ClassStep
    /\ LET r == lookupMethod(classes[class], index, read)
       IN  /\ dispatch' = [op |-> op, index |-> index,
                           count |-> classes[class].methods.count,
                           kind |-> r.kind, outcome |-> r.outcome]
           /\ vmResult' = CASE r.outcome = "error" -> "exit"
                            [] r.outcome = "undefined" -> "undefined"
                            [] OTHER -> "running"
    /\ UNCHANGED <<classes, bound>>

\* the class of the receiver
CallN(class, index, read) == Lookup("CallN", class, index, read)

\* the super class taken from the constants
SuperN(class, index, read) == Lookup("SuperN", class, index, read)

InitMethods ==
    /\ InitVM
    /\ InitCompile
    /\ classes = <<newRawClass(0), newRawClass(0)>>
    /\ bound = {}
    /\ dispatch = NoDispatch

NextClass ==
    \/ \E superClass \in 1..Len(classes) : CreateClass(superClass, 0)
    \/ \E class \in 1..Len(classes), methodIndex \in 0..MaxSymbol :
           InstanceMethod(class, methodIndex)
    \/ \E class \in 1..Len(classes), methodIndex \in 0..MaxSymbol :
           StaticMethod(class, methodIndex)
    \/ \E class \in 1..Len(classes), index \in 0..MaxSymbol, read \in MethodTypes :
           CallN(class, index, read)
    \/ \E class \in 1..Len(classes), index \in 0..MaxSymbol, read \in MethodTypes :
           SuperN(class, index, read)

SpecClass == InitMethods /\ [][NextClass]_vars

\* SpecInherit: classes with fields and base classes, is(_) and instances.
InheritStep ==
    /\ vmResult = "running"
    /\ UNCHANGED <<objMap, objList, threads, curThread, upvalues, allModules, last, dispatch,
                   allMethodNames, code, module, cu>>

\* the operand of OPCODE_CREATE_CLASS is a byte
FieldNums == 0..MaxFieldNum \cup {MAX_FIELD_NUM, MAX_FIELD_NUM + 1}

CreateClassWithFields(superClass, fieldNum) ==
    /\ InheritStep
    /\ createClass(superClass, fieldNum, MaxInheritClasses)
    /\ outcome' = [op |-> "class"]

\* receiver.is(X) on an instance of class
ObjectIs(class, X) ==
    /\ InheritStep
    /\ LET r == primObjectIs(classes, class, X)
       IN  /\ outcome' = [op |-> "is", class |-> class, arg |-> X, result |-> r]
           /\ vmResult' = IF r = "diverges" THEN "undefined" ELSE "running"
    /\ UNCHANGED <<classes, bound>>

\* OPCODE_CONSTRUCT on class
Construct(class) ==
    /\ InheritStep
    /\ LET fields == newObjInstance(classes[class])
       IN  /\ outcome' = [op |-> "instance", class |-> class, fields |-> fields]
           /\ vmResult' = IF fields = "diverges" THEN "undefined" ELSE "running"
    /\ UNCHANGED <<classes, bound>>

NextInherit ==
    \/ \E superClass \in 1..Len(classes), fieldNum \in FieldNums :
           CreateClassWithFields(superClass, fieldNum)
    \/ \E class \in 1..Len(classes), X \in 1..Len(classes) : ObjectIs(class, X)
    \/ \E class \in 1..Len(classes) : Construct(class)

SpecInherit == InitMethods /\ [][NextInherit]_vars

\* ------------------------------------------------------- class definitions
\* SpecConstruct: a module of the form
\*     <calls in function bodies>  class C ( new(args) {} }  C.new(args)
\* is compiled into vm->allMethodNames and the module's instructions, and the
\* instructions are then run. An undefined operation of the compiler either
\* stops the program ("undefined") or lets it go on.
NoProgram ==
    [op |-> "none", argNum |-> 0, ctor |-> -1, static |-> -1, call |-> -1,
     result |-> "none"]

InitConstruct ==
    /\ InitVM
    /\ classes = <<newRawClass(0), newRawClass(0)>>
    /\ bound = {}
    /\ dispatch = NoDispatch
    /\ allMethodNames = <<>>
    /\ code = <<>>
    /\ module = NoModule
    /\ cu = NoCompileUnit
    /\ outcome = NoProgram
    /\ InitObjects

\* what an uninitialised or zeroed signBuffer holds where the name should be
NulBuffer == <<"NUL", "NUL", "NUL">>

SignBuffers == {NulBuffer, <<"n", "e", "w">>, <<"f", "NUL", "e">>}

MethodNames == {<<"n", "e", "w">>, <<"f">>}

CompileStep ==
    /\ vmResult = "running"
    /\ UNCHANGED <<objMap, objList, threads, curThread, upvalues, allModules, last, classes, bound,
                   dispatch, module, cu>>

\* the symbol index emitCallBySignature writes as the operand of CALLn
emitCallBySignature(table, sign, signBuffer) ==
    ensureSymbolExist(table, sign2String(sign, signBuffer),
                      Len(sign2String(sign, signBuffer)))

\* a call x.name(args) or x.name in the body of a function: its signature is
\* added to vm->allMethodNames, its instruction is in the function's own unit
CompileCall(sign, signBuffer, crashed) ==
    /\ CompileStep
    /\ outcome.op = "none"
    /\ Len(allMethodNames) + 3 <= MaxNames
    /\ IF crashed
       THEN vmResult' = "undefined" /\ UNCHANGED allMethodNames
       ELSE /\ vmResult' = "running"
            /\ allMethodNames' = emitCallBySignature(allMethodNames, sign, signBuffer)[1]
    /\ UNCHANGED <<code, outcome>>

\* compileClassDefinition with one method, the constructor new(args):
\* matchToken reads through cu->curLoop, which is NULL in the module's unit;
\* the token after the class name must be TOKEN_LEFT_PAREN; compileMethod
\* declares the signature of the constructor and then binds the static method
\* under the signature of length strlen(signatureString) = 0
compileMethod(table, argNum) ==
    LET signatureString == sign2String(Sign("SIGN_CONSTRUCT", <<"n", "e", "w">>, argNum),
                                       NulBuffer)
        declared == ensureSymbolExist(table, signatureString, Len(signatureString))
        constructor == ensureSymbolExist(declared[1], <<>>, 0)
    IN  [table |-> constructor[1], methodIndex |-> declared[2],
         constructorIndex |-> constructor[2]]

CompileClassDefinition(opening, argNum, fieldNum, crashed) ==
    /\ CompileStep
    /\ outcome.op = "none"
    /\ Len(allMethodNames) + 2 <= MaxNames
    /\ IF crashed
       THEN vmResult' = "undefined" /\ UNCHANGED <<allMethodNames, code, outcome>>
       ELSE IF opening # "("
       THEN vmResult' = "exit" /\ UNCHANGED <<allMethodNames, code, outcome>>
       ELSE LET m == compileMethod(allMethodNames, argNum)
            IN  /\ vmResult' = "running"
                /\ allMethodNames' = m.table
                /\ code' = <<[op |-> "CREATE_CLASS", operand |-> fieldNum],
                             [op |-> "INSTANCE_METHOD", operand |-> m.methodIndex],
                             [op |-> "STATIC_METHOD", operand |-> m.constructorIndex]>>
                /\ outcome' = [NoProgram EXCEPT !.op = "class", !.argNum = argNum,
                                                !.ctor = m.methodIndex,
                                                !.static = m.constructorIndex]

\* the statement C.new(args) of the module, with as many arguments as the
\* constructor declares
CompileCallNew(signBuffer, crashed) ==
    /\ CompileStep
    /\ outcome.op = "class"
    /\ IF crashed
       THEN vmResult' = "undefined" /\ UNCHANGED <<allMethodNames, code, outcome>>
       ELSE LET r == emitCallBySignature(allMethodNames,
                         Sign("SIGN_METHOD", <<"n", "e", "w">>, outcome.argNum),
                         signBuffer)
            IN  /\ vmResult' = "running"
                /\ allMethodNames' = r[1]
                /\ code' = Append(code, [op |-> "CALL", operand |-> r[2]])
                /\ outcome' = [outcome EXCEPT !.op = "call", !.call = r[2]]

\* CALLn on the class C: the method is looked up in the meta class; the static
\* method the class definition bound runs OPCODE_CONSTRUCT and calls the
\* constructor on the new instance
callNew(C, index, read) ==
    LET found == lookupMethod(classes[classes[C].meta], index, read)
        body == lookupMethod(classes[C], outcome.ctor, read)
    IN  IF found.outcome # "dispatched" THEN found.outcome
        ELSE IF index # outcome.static THEN "other method"
        ELSE IF newObjInstance(classes[C]) = "diverges" THEN "diverges"
        ELSE IF body.outcome # "dispatched" THEN body.outcome
        ELSE "instance"

\* one instruction of the module; the class the instructions work on is the
\* one CREATE_CLASS made, the last of classes
RunInstruction(read) ==
    /\ vmResult = "running"
    /\ outcome.op \in {"call", "run"}
    /\ code # <<>>
    /\ UNCHANGED <<objMap, objList, threads, curThread, upvalues, allModules, last, dispatch,
                   allMethodNames, module, cu>>
    /\ code' = Tail(code)
    /\ LET instr == Head(code)
           C == Len(classes)
       IN  CASE instr.op = "CREATE_CLASS" ->
                   /\ createClass(1, instr.operand, MaxClasses)
                   /\ outcome' = [outcome EXCEPT !.op = "run"]
             [] instr.op = "INSTANCE_METHOD" ->
                   /\ bindMethodAndPatch("InstanceMethod", C, instr.operand)
                   /\ UNCHANGED outcome
             [] instr.op = "STATIC_METHOD" ->
                   /\ bindMethodAndPatch("StaticMethod", C, instr.operand)
                   /\ UNCHANGED outcome
             [] instr.op = "CALL" ->
                   /\ outcome' = [outcome EXCEPT !.op = "new",
                                                 !.result = callNew(C, instr.operand, read)]
                   /\ vmResult' = CASE outcome'.result = "error" -> "exit"
                                     [] outcome'.result \in {"undefined", "diverges"} -> "undefined"
                                     [] OTHER -> "running"
                   /\ UNCHANGED <<classes, bound>>

NextConstruct ==
    \/ \E sign \in {Sign("SIGN_GETTER", name, 0) : name \in MethodNames}
                  \cup {Sign("SIGN_METHOD", name, n) : name \in MethodNames, n \in 0..1},
          signBuffer \in SignBuffers, crashed \in BOOLEAN :
           CompileCall(sign, signBuffer, crashed)
    \/ \E opening \in {"(", "{"}, argNum \in 0..1, fieldNum \in 0..MaxFieldNum,
          crashed \in BOOLEAN :
           CompileClassDefinition(opening, argNum, fieldNum, crashed)
    \/ \E signBuffer \in SignBuffers, crashed \in BOOLEAN :
           CompileCallNew(signBuffer, crashed)
    \/ \E read \in MethodTypes : RunInstruction(read)

SpecConstruct == InitConstruct /\ [][NextConstruct]_vars

\* ------------------------------------------------------- module variables
\* SpecModule: the module-scope variable definitions (var name) and the
\* references to module variables (name in an expression) of one module, and
\* the check compileModule makes when the source ends.
NUM_TO_VALUE(num) == [type |-> "VT_NUM", obj |-> num]

VALUE_IS_NUM(v) == v.type = "VT_NUM"

VarNames == {<<"a">>, <<"b">>, <<"b", "c">>}

\* ghost fields pending and defined: the names referenced and not yet
\* defined, and the names defined, by the statements compiled so far
NoStatement ==
    [op |-> "none", name |-> <<>>, pending |-> {}, defined |-> {},
     wasDefined |-> FALSE, wasPending |-> FALSE, result |-> "none"]

InitModule ==
    /\ InitVM
    /\ InitClass
    /\ allMethodNames = <<>>
    /\ code = <<>>
    /\ module = NoModule
    /\ cu = NoCompileUnit
    /\ outcome = NoStatement
    /\ InitObjects

ModuleStep ==
    /\ vmResult = "running"
    /\ UNCHANGED <<objMap, objList, threads, curThread, upvalues, allModules, last, classes, bound,
                   dispatch, allMethodNames, code, cu>>

\* gives <<objModule, index>>
declareModuleVar(objModule, name, length, value) ==
    <<[moduleVarName |-> addSymbol(objModule.moduleVarName, name, length)[1],
       moduleVarValue |-> Append(objModule.moduleVarValue, value)],
      Len(objModule.moduleVarName)>>

setValue(values, index, value) ==
    [i \in 1..Len(values) |-> IF i = index + 1 THEN value ELSE values[i]]

\* gives <<objModule, index>>, index -1 for a name that is defined, and
\* "exit" for a name that is too long
defineModuleVar(objModule, name, length, value) ==
    IF length > MAX_ID_LEN THEN "exit"
    ELSE IF getIndexFromSymbolTable(objModule.moduleVarName, name, length) = -1
    THEN declareModuleVar(objModule, name, length, value)
    ELSE IF VALUE_IS_NUM(objModule.moduleVarValue[
                getIndexFromSymbolTable(objModule.moduleVarName, name, length) + 1])
    THEN <<[objModule EXCEPT !.moduleVarValue =
                setValue(@, getIndexFromSymbolTable(objModule.moduleVarName, name, length),
                         value)],
           getIndexFromSymbolTable(objModule.moduleVarName, name, length)>>
    ELSE <<objModule, -1>>

\* compileModule starts by writing through its Lexer pointer, which it never
\* set
CompileModule(crashed) ==
    /\ ModuleStep
    /\ outcome.op = "none"
    /\ vmResult' = IF crashed THEN "undefined" ELSE "running"
    /\ outcome' = IF crashed THEN outcome ELSE [outcome EXCEPT !.op = "compiling"]
    /\ UNCHANGED module

Compiling == outcome.op \in {"compiling", "reference", "declare"}

\* id, case 6: the name is looked up, then looked up as "Fn name", and is
\* declared with the line number as its value if both fail
ReferenceVariable(name, lineNo) ==
    /\ ModuleStep
    /\ Compiling
    /\ Len(module.moduleVarName) < MaxModuleVars
    /\ vmResult' = "running"
    /\ module' =
          IF /\ getIndexFromSymbolTable(module.moduleVarName, name, Len(name)) = -1
             /\ getIndexFromSymbolTable(module.moduleVarName, <<"F", "n", " ">> \o name,
                                        Len(name) + 3) = -1
          THEN declareModuleVar(module, name, Len(name), NUM_TO_VALUE(lineNo))[1]
          ELSE module
    /\ outcome' = [outcome EXCEPT !.op = "reference", !.name = name,
                                  !.pending = IF name \in outcome.defined
                                              THEN @ ELSE @ \cup {name}]

\* declareVariable in the module's unit (scopeDepth -1)
DeclareVariable(name) ==
    /\ ModuleStep
    /\ Compiling
    /\ Len(module.moduleVarName) < MaxModuleVars
    /\ LET r == defineModuleVar(module, name, Len(name), Null)
           failed == r = "exit" \/ r[2] = -1
       IN  /\ vmResult' = IF failed THEN "exit" ELSE "running"
           /\ module' = IF failed THEN module ELSE r[1]
           /\ outcome' = [op |-> "declare", name |-> name,
                          pending |-> IF failed THEN outcome.pending
                                      ELSE outcome.pending \ {name},
                          defined |-> IF failed THEN outcome.defined
                                      ELSE outcome.defined \cup {name},
                          wasDefined |-> name \in outcome.defined,
                          wasPending |-> name \in outcome.pending,
                          result |-> IF failed THEN "error" ELSE "declared"]

\* the loop of compileModule over the variables the module added (the module
\* had none before)
FinishModule ==
    /\ ModuleStep
    /\ Compiling
    /\ LET failed == \E idx \in 1..Len(module.moduleVarValue) :
                         VALUE_IS_NULL(module.moduleVarValue[idx])
       IN  /\ vmResult' = IF failed THEN "exit" ELSE "running"
           /\ outcome' = [outcome EXCEPT !.op = "finished",
                                         !.result = IF failed THEN "error" ELSE "ok"]
    /\ UNCHANGED module

NextModule ==
    \/ \E crashed \in BOOLEAN : CompileModule(crashed)
    \/ \E name \in VarNames, lineNo \in 1..MaxLineNo : ReferenceVariable(name, lineNo)
    \/ \E name \in VarNames : DeclareVariable(name)
    \/ FinishModule

SpecModule == InitModule /\ [][NextModule]_vars

\* ------------------------------------------------------- local variables
\* SpecLocals: the blocks and the local variable declarations of one compile
\* unit. A local is [name, length, scopeDepth, isUpvalue, id]: addLocalVar stores the
\* length in var->name and leaves var->length as the memory held ("junk");
\* id is a ghost field, the name that was declared.
LocalNames == 1..3

\* localVars[0] of a function or method unit, as initCompileUnit sets it
ThisVar == [name |-> "this", length |-> "4", scopeDepth |-> -1, isUpvalue |-> FALSE,
            id |-> 0]

\* the unit of the module, or the unit of a function (enclosingUnit set)
\* whose body has declared n locals so far
initCompileUnit(enclosingUnit, n) ==
    IF enclosingUnit
    THEN [localVars |-> [i \in 1..n + 1 |->
                            IF i = 1 THEN ThisVar
                            ELSE [name |-> "length", length |-> "junk", scopeDepth |-> 0,
                                  isUpvalue |-> FALSE, id |-> i - 1]],
          scopeDepth |-> 0, enclosingUnit |-> TRUE]
    ELSE [localVars |-> <<>>, scopeDepth |-> -1, enclosingUnit |-> FALSE]

LocalCounts == {0, 1, MAX_LOCAL_VAR_NUM - 2, MAX_LOCAL_VAR_NUM - 1}

NoDeclaration ==
    [op |-> "none", id |-> 0, duplicate |-> FALSE, outer |-> FALSE, before |-> 0,
     result |-> "none", count |-> 0]

InitLocals ==
    /\ InitVM
    /\ InitClass
    /\ allMethodNames = <<>>
    /\ code = <<>>
    /\ module = NoModule
    /\ cu \in {initCompileUnit(FALSE, 0)} \cup {initCompileUnit(TRUE, n) : n \in LocalCounts}
    /\ outcome = NoDeclaration
    /\ InitObjects

LocalsStep ==
    /\ vmResult = "running"
    /\ UNCHANGED <<objMap, objList, threads, curThread, upvalues, allModules, last, classes, bound,
                   dispatch, allMethodNames, code, module>>

\* the locals the loop of declareLocalVar looks at: from the last one back
\* to the first whose scopeDepth is below that of the unit
InScope(unit) ==
    {i \in 1..Len(unit.localVars) :
        \A j \in i..Len(unit.localVars) : unit.localVars[j].scopeDepth >= unit.scopeDepth}

\* match: the memory read as var->length of some local in scope equals the
\* length of the name; memcmp then reads through var->name, which holds a
\* length. The result is "error", "undefined", "overflow" (addLocalVar
\* writes localVars[MAX_LOCAL_VAR_NUM]) or "declared", with the unit.
addLocalVar(unit, id) ==
    [unit EXCEPT !.localVars =
        [i \in 1..Len(unit.localVars) + 1 |->
            IF i <= Len(unit.localVars) THEN unit.localVars[i]
            ELSE [name |-> "length", length |-> "junk", scopeDepth |-> unit.scopeDepth,
                  isUpvalue |-> FALSE, id |-> id]]]

declareLocalVar(unit, id, match) ==
    IF Len(unit.localVars) > MAX_LOCAL_VAR_NUM THEN [result |-> "error", unit |-> unit]
    ELSE IF InScope(unit) # {} /\ match THEN [result |-> "undefined", unit |-> unit]
    ELSE IF Len(unit.localVars) >= MAX_LOCAL_VAR_NUM
    THEN [result |-> "overflow", unit |-> unit]
    ELSE [result |-> "declared", unit |-> addLocalVar(unit, id)]

\* declareVariable in a block (scopeDepth 0 or more)
DeclareLocalVar(id, match) ==
    /\ LocalsStep
    /\ cu.scopeDepth >= 0
    /\ outcome.count < MaxDeclared
    /\ LET r == declareLocalVar(cu, id, match)
       IN  /\ cu' = r.unit
           /\ vmResult' = CASE r.result = "error" -> "exit"
                             [] r.result = "declared" -> "running"
                             [] OTHER -> "undefined"
           /\ outcome' =
                 [op |-> "declareLocal", id |-> id,
                  duplicate |-> \E i \in InScope(cu) : cu.localVars[i].id = id,
                  outer |-> \E i \in 1..Len(cu.localVars) :
                               /\ cu.localVars[i].id = id
                               /\ cu.localVars[i].scopeDepth # cu.scopeDepth,
                  before |-> Len(cu.localVars),
                  result |-> r.result,
                  count |-> outcome.count + 1]

EnterScope ==
    /\ LocalsStep
    /\ cu.scopeDepth < MaxScopeDepth
    /\ cu' = [cu EXCEPT !.scopeDepth = @ + 1]
    /\ outcome' = [outcome EXCEPT !.op = "enterScope"]
    /\ UNCHANGED vmResult

\* leaveScope: the locals of the scope are discarded unless the unit is the
\* module's
LeaveScope ==
    /\ LocalsStep
    /\ cu.scopeDepth > (IF cu.enclosingUnit THEN 0 ELSE -1)
    /\ cu' = [localVars |-> IF cu.enclosingUnit
                             THEN SubSeq(cu.localVars, 1,
                                         Len(cu.localVars) - Cardinality(InScope(cu)))
                             ELSE cu.localVars,
              scopeDepth |-> cu.scopeDepth - 1,
              enclosingUnit |-> cu.enclosingUnit]
    /\ outcome' = [outcome EXCEPT !.op = "leaveScope"]
    /\ UNCHANGED vmResult

NextLocals ==
    \/ \E id \in LocalNames, match \in BOOLEAN : DeclareLocalVar(id, match)
    \/ EnterScope
    \/ LeaveScope

SpecLocals == InitLocals /\ [][NextLocals]_vars

\* ------------------------------------------------------- maps
\* SpecMap: mapSet, mapGet and removeKey on one ObjMap. A key is False, Null,
\* True or a string; the field obj of a string key is its hashCode. The
\* entries of the table are entries[1..capacity], slot index + 1 for the
\* code's index.
Undefined == [type |-> "VT_UNDEFINED", obj |-> 0]
False == [type |-> "VT_FALSE", obj |-> 0]
True == [type |-> "VT_TRUE", obj |-> 0]
Str(hashCode) == [type |-> "OT_STRING", obj |-> hashCode]

VALUE_IS_UNDEFINED(v) == v.type = "VT_UNDEFINED"

hashValue(value) ==
    CASE value.type = "VT_FALSE" -> 0
      [] value.type = "VT_NULL" -> 1
      [] value.type = "VT_TRUE" -> 2
      [] OTHER -> value.obj

\* count > cap * MAP_LOAD_PERCENT, with MAP_LOAD_PERCENT = 0.8
AboveLoad(count, cap) == 10 * count > 8 * cap

\* the loop of addEntry from index on; fuel is the number of slots not yet
\* looked at. Gives the entries and isNewAdd, or diverges.
RECURSIVE addEntryFrom(_, _, _, _, _, _)
addEntryFrom(entries, cap, key, value, index, fuel) ==
    IF fuel = 0 THEN [outcome |-> "diverges", entries |-> entries, isNewAdd |-> FALSE]
    ELSE IF VALUE_IS_UNDEFINED(entries[index + 1].key)
    THEN [outcome |-> "done", isNewAdd |-> TRUE,
          entries |-> [i \in 1..cap |->
                          IF i = index + 1 THEN [key |-> key, value |-> value]
                          ELSE entries[i]]]
    ELSE IF entries[index + 1].key = key
    THEN [outcome |-> "done", isNewAdd |-> FALSE,
          entries |-> [i \in 1..cap |->
                          IF i = index + 1 THEN [key |-> key, value |-> value]
                          ELSE entries[i]]]
    ELSE addEntryFrom(entries, cap, key, value, (index + 1) % cap, fuel - 1)

addEntry(entries, cap, key, value) ==
    addEntryFrom(entries, cap, key, value, hashValue(key) % cap, cap)

\* the loop of findEntry; gives the index of the entry, NULL or diverges
RECURSIVE findEntryFrom(_, _, _, _)
findEntryFrom(map, key, index, fuel) ==
    IF fuel = 0 THEN [outcome |-> "diverges", index |-> index]
    ELSE IF map.entries[index + 1].key = key THEN [outcome |-> "entry", index |-> index]
    ELSE IF /\ VALUE_IS_UNDEFINED(map.entries[index + 1].key)
            /\ map.entries[index + 1].value.type = "VT_FALSE"
    THEN [outcome |-> "NULL", index |-> index]
    ELSE findEntryFrom(map, key, (index + 1) % map.capacity, fuel - 1)

findEntry(map, key) ==
    IF map.capacity = 0 THEN [outcome |-> "NULL", index |-> 0]
    ELSE findEntryFrom(map, key, hashValue(key) % map.capacity, map.capacity)

\* the element of a set of one element
The(S) == CHOOSE x \in S : TRUE

\* the second loop of resizeMap: the entries of the old table at the
\* indices from .. to are added to newEntries in the order of the indices
\* (the range is split in two so that the evaluation stays shallow)
RECURSIVE copyEntries(_, _, _, _, _)
copyEntries(map, newEntries, newCapacity, from, to) ==
    IF from > to THEN newEntries
    ELSE IF from < to
    THEN The({copyEntries(map, half, newCapacity, (from + to) \div 2 + 1, to) :
                 half \in {copyEntries(map, newEntries, newCapacity, from,
                                       (from + to) \div 2)}})
    ELSE IF VALUE_IS_UNDEFINED(map.entries[from + 1].key) THEN newEntries
    ELSE addEntry(newEntries, newCapacity, map.entries[from + 1].key,
                  map.entries[from + 1].value).entries

resizeMap(map, newCapacity) ==
    [capacity |-> newCapacity, count |-> map.count,
     entries |-> The({IF map.count > 0
                      THEN copyEntries(map, newEntries, newCapacity, 0, map.capacity - 1)
                      ELSE newEntries :
                         newEntries \in {[i \in 1..newCapacity |->
                                            [key |-> Undefined, value |-> False]]}})]

\* a mapSet that makes room in a new map only
grownOnce(map) == IF map.capacity = 0 THEN resizeMap(map, MIN_CAPACITY) ELSE map

\* the map as the first half of mapSet leaves it
grown(map) ==
    IF AboveLoad(map.count + 1, map.capacity)
    THEN resizeMap(map, IF map.capacity * CAPACITY_GROW_FACTOR < MIN_CAPACITY
                        THEN MIN_CAPACITY ELSE map.capacity * CAPACITY_GROW_FACTOR)
    ELSE map

\* the second half of mapSet
mapSetGrown(map, key, value) ==
    The({[capacity |-> map.capacity,
          count |-> IF added.isNewAdd THEN map.count + 1 ELSE map.count,
          entries |-> added.entries] :
             added \in {addEntry(map.entries, map.capacity, key, value)}})

mapSet(map, key, value) == The({mapSetGrown(g, key, value) : g \in {grown(map)}})

clearMap(map) == [capacity |-> 0, count |-> 0, entries |-> <<>>]

\* the map with the entry at index made a deleted one and count decremented
deleted(map, index) ==
    [capacity |-> map.capacity, count |-> map.count - 1,
     entries |-> [i \in 1..map.capacity |->
                     IF i = index + 1 THEN [key |-> Undefined, value |-> True]
                     ELSE map.entries[i]]]

\* a removeKey that frees an empty map and never makes a table smaller
shrunkNever(map) == IF map.count = 0 THEN clearMap(map) ELSE map

\* the second half of removeKey, on the map with the entry deleted
shrunk(map) ==
    IF map.count = 0 THEN clearMap(map)
    ELSE IF /\ 10 * map.count < 8 * (map.capacity \div CAPACITY_GROW_FACTOR)
            /\ map.count > MIN_CAPACITY
    THEN resizeMap(map, IF map.capacity \div CAPACITY_GROW_FACTOR < MIN_CAPACITY
                        THEN MIN_CAPACITY ELSE map.capacity \div CAPACITY_GROW_FACTOR)
    ELSE map

removeKey(map, key) ==
    The({IF found.outcome = "entry"
         THEN The({shrunk(d) : d \in {deleted(map, found.index)}})
         ELSE map :
            found \in {findEntry(map, key)}})

\* the maps SpecMap starts from: n strings of hashCode 1..n set one after
\* the other in a new map, and the string of hashCode 0 set in a new map and
\* then n strings of hashCode 1..n each set and removed
RECURSIVE FillRange(_, _, _)
FillRange(map, from, to) ==
    IF from > to THEN map
    ELSE IF from < to
    THEN The({FillRange(half, (from + to) \div 2 + 1, to) :
                 half \in {FillRange(map, from, (from + to) \div 2)}})
    ELSE mapSet(map, Str(from), NUM_TO_VALUE(1))

Filled(n) == FillRange(newObjMap, 1, n)

RECURSIVE SweepRange(_, _, _)
SweepRange(map, from, to) ==
    IF from > to THEN map
    ELSE IF from < to
    THEN The({SweepRange(half, (from + to) \div 2 + 1, to) :
                 half \in {SweepRange(map, from, (from + to) \div 2)}})
    ELSE The({removeKey(m, Str(from)) : m \in {mapSet(map, Str(from), NUM_TO_VALUE(1))}})

Swept(n) ==
    The({SweepRange(m, 1, n) : m \in {mapSet(newObjMap, Str(0), NUM_TO_VALUE(1))}})

\* False and the string of hashCode 64, which share slot 0 of a table of 64
\* slots, set in a new map and False then removed
Collided ==
    The({removeKey(m, False) :
            m \in {mapSet(mapSet(newObjMap, False, NUM_TO_VALUE(1)),
                          Str(MIN_CAPACITY), NUM_TO_VALUE(1))}})

MapKeys == {False, Str(MIN_CAPACITY)}

\* the <<key, value>> pairs of the live entries of a table
LiveEntries(map) ==
    {<<map.entries[i].key, map.entries[i].value>> :
        i \in {j \in 1..map.capacity : ~VALUE_IS_UNDEFINED(map.entries[j].key)}}

\* ghost field contents: the keys set and not removed since, each with the
\* value of its last set; capacity: that of the map before the operation;
\* ops: the number of operations so far
NoMapOp(map) ==
    [op |-> "none", key |-> Undefined, result |-> Undefined,
     contents |-> LiveEntries(map), capacity |-> map.capacity, ops |-> 0]

InitMap ==
    /\ InitVM
    /\ InitClass
    /\ allMethodNames = <<>>
    /\ code = <<>>
    /\ module = NoModule
    /\ cu = NoCompileUnit
    /\ objList = newObjList(0)
    /\ objMap \in {Filled(0), Filled(51), Filled(204), Swept(63), Collided}
    /\ outcome = NoMapOp(objMap)

MapStep ==
    /\ vmResult = "running"
    /\ outcome.ops < MaxMapOps
    /\ UNCHANGED <<objList, threads, curThread, upvalues, allModules, last, classes,
                   bound, dispatch, allMethodNames, code, module, cu>>

Without(contents, key) == {pair \in contents : pair[1] # key}

MapSet(key, value) ==
    /\ MapStep
    /\ \E g \in {grown(objMap)} :
         \E added \in {addEntry(g.entries, g.capacity, key, value)} :
            IF added.outcome = "diverges"
            THEN /\ vmResult' = "undefined"
                 /\ objMap' = g
                 /\ outcome' = [outcome EXCEPT !.op = "set", !.key = key,
                                               !.result = Str(0), !.ops = @ + 1]
            ELSE /\ vmResult' = "running"
                 /\ objMap' = mapSetGrown(g, key, value)
                 /\ outcome' = [op |-> "set", key |-> key, result |-> value,
                                contents |-> Without(outcome.contents, key)
                                                \cup {<<key, value>>},
                                capacity |-> objMap.capacity,
                                ops |-> outcome.ops + 1]

\* the value mapGet or removeKey gives for what findEntry found
Found(found, absent) ==
    CASE found.outcome = "entry" -> objMap.entries[found.index + 1].value
      [] found.outcome = "NULL" -> absent
      [] OTHER -> Str(0)

MapGet(key) ==
    /\ MapStep
    /\ \E found \in {findEntry(objMap, key)} :
         /\ vmResult' = IF found.outcome = "diverges" THEN "undefined" ELSE "running"
         /\ outcome' = [op |-> "get", key |-> key, result |-> Found(found, Undefined),
                        contents |-> outcome.contents, capacity |-> objMap.capacity,
                        ops |-> outcome.ops + 1]
    /\ UNCHANGED objMap

RemoveKey(key) ==
    /\ MapStep
    /\ \E found \in {findEntry(objMap, key)} :
         /\ vmResult' = IF found.outcome = "diverges" THEN "undefined" ELSE "running"
         /\ objMap' = IF found.outcome = "entry"
                      THEN The({shrunk(d) : d \in {deleted(objMap, found.index)}})
                      ELSE objMap
         /\ outcome' = [op |-> "remove", key |-> key, result |-> Found(found, Null),
                        contents |-> Without(outcome.contents, key),
                        capacity |-> objMap.capacity, ops |-> outcome.ops + 1]

NextMap ==
    \/ \E key \in MapKeys, n \in 1..MaxMapValue : MapSet(key, NUM_TO_VALUE(n))
    \/ \E key \in MapKeys : MapGet(key)
    \/ \E key \in MapKeys : RemoveKey(key)

SpecMap == InitMap /\ [][NextMap]_vars

\* ------------------------------------------------------- lists
\* SpecList: the natives of List on one ObjList and the subscript of Map on
\* one ObjMap. The double of an index is held in halves: 3 is 1.5, -2 is -1.
\* 0xFFFFFFFF, held as the number its 32 bits are as an int
UINT32_MAX == 0 - 1

\* trunc(value) == value
validateIntValue(value) == value % 2 = 0

\* the index as a uint32_t, or UINT32_MAX with the error object set
validateIndexValue(index, length) ==
    IF ~validateIntValue(index) THEN UINT32_MAX
    ELSE IF (IF index < 0 THEN index + 2 * length ELSE index) >= 0
            /\ (IF index < 0 THEN index + 2 * length ELSE index) < 2 * length
    THEN (IF index < 0 THEN index + 2 * length ELSE index) \div 2
    ELSE UINT32_MAX

validateKey(arg) ==
    arg.type \in {"VT_TRUE", "VT_FALSE", "VT_NULL", "VT_NUM", "OT_STRING", "OT_RANGE",
                  "OT_CLASS"}

\* calculateRange on the range from..to: UINT32_MAX with count left as it is,
\* or the start index with the count and the direction of the range
calculateRange(from, to, count) ==
    IF validateIndexValue(from, count) = UINT32_MAX
       \/ validateIndexValue(to, count) = UINT32_MAX
    THEN [startIndex |-> UINT32_MAX, count |-> count, direction |-> 0]
    ELSE [startIndex |-> validateIndexValue(from, count),
          count |-> (IF validateIndexValue(from, count) < validateIndexValue(to, count)
                     THEN validateIndexValue(to, count) - validateIndexValue(from, count)
                     ELSE validateIndexValue(from, count) - validateIndexValue(to, count)) + 1,
          direction |-> IF validateIndexValue(from, count) < validateIndexValue(to, count)
                        THEN 1 ELSE -1]

\* ValueBufferAdd: ValueBufferFillWrite of one value
ValueBufferAdd(buf, data) ==
    [datas |-> [i \in 1..(IF buf.count + 1 > buf.capacity
                          THEN ceilToPowerOf2(buf.count + 1) ELSE buf.capacity) |->
                   IF i = buf.count + 1 THEN data
                   ELSE IF i <= buf.capacity THEN buf.datas[i]
                   ELSE Junk],
     count |-> buf.count + 1,
     capacity |-> IF buf.count + 1 > buf.capacity
                  THEN ceilToPowerOf2(buf.count + 1) ELSE buf.capacity]

\* the cells of a list after the two steps of insertElement that follow
\* ValueBufferAdd: the cells after index moved up by one, value at index
shiftedUp(added, index, value) ==
    [added EXCEPT !.datas = [i \in 1..added.capacity |->
                                IF i = index + 1 THEN value
                                ELSE IF i > index + 1 /\ i <= added.count
                                THEN added.datas[i - 1]
                                ELSE added.datas[i]]]

\* count - 1 is a uint32_t: 0xFFFFFFFF for an empty list, which no index
\* is above
insertElement(list, index, value) ==
    IF list.count > 0 /\ index > list.count - 1
    THEN [st |-> "exit", list |-> list]
    ELSE [st |-> "ok", list |-> shiftedUp(ValueBufferAdd(list, Null), index, value)]

\* a removeElement that moves no cell
shiftedNowhere(list, index) == list

\* the cells of a list after the loop of removeElement
shiftedDown(list, index) ==
    [list EXCEPT !.datas = [i \in 1..list.capacity |->
                               IF i >= index + 1 /\ i < list.count
                               THEN list.datas[i + 1]
                               ELSE list.datas[i]]]

\* shrinkList drops the block memManager returns and assigns the address of
\* the function newObjUpvalue to capacity: the list is no longer defined
shrinkList(list, newCapacity) == "undefined"

removeElement(list, index) ==
    [st |-> IF list.capacity \div CAPACITY_GROW_FACTOR > list.count
            THEN shrinkList(list, list.capacity \div CAPACITY_GROW_FACTOR) ELSE "ok",
     value |-> list.datas[index + 1],
     list |-> [shiftedDown(list, index) EXCEPT !.count = @ - 1]]

\* what a native of List or Map gives: ret is the bool it returns, error
\* whether it set the error object of the fiber, value what it left in args[0],
\* read whether it read a cell of datas or of entries
Native(ret, error, value, read, st, list) ==
    [ret |-> ret, error |-> error, value |-> value, read |-> read, st |-> st,
     list |-> list]

ListVal(count) == [type |-> "OT_LIST", obj |-> count]

primListAdd(list, value) ==
    Native(TRUE, FALSE, value, FALSE, "ok", ValueBufferAdd(list, value))

primListInsert(list, index, value) ==
    IF validateIndexValue(index, list.count + 1) = UINT32_MAX
    THEN Native(FALSE, TRUE, Undefined, FALSE, "ok", list)
    ELSE Native(TRUE, FALSE, value, FALSE,
                insertElement(list, validateIndexValue(index, list.count + 1), value).st,
                insertElement(list, validateIndexValue(index, list.count + 1), value).list)

primListRemoveAt(list, index) ==
    IF validateIndexValue(index, list.count) = UINT32_MAX
    THEN Native(FALSE, TRUE, Undefined, FALSE, "ok", list)
    ELSE Native(TRUE, FALSE,
                removeElement(list, validateIndexValue(index, list.count)).value, TRUE,
                removeElement(list, validateIndexValue(index, list.count)).st,
                removeElement(list, validateIndexValue(index, list.count)).list)

\* args[1] is the number from (kind "num"), the range from..to (kind "range")
\* or a value that is neither (kind "other"). With a range the result of
\* calculateRange is used unchecked: on UINT32_MAX the loop copies count cells
\* from datas[UINT32_MAX + idx * direction], direction never assigned.
primListSubscript(list, kind, from, to) ==
    CASE kind = "num" ->
           IF validateIndexValue(from, list.count) = UINT32_MAX
           THEN Native(FALSE, TRUE, Undefined, FALSE, "ok", list)
           ELSE Native(TRUE, FALSE, list.datas[validateIndexValue(from, list.count) + 1],
                       TRUE, "ok", list)
      [] kind = "range" ->
           IF calculateRange(from, to, list.count).startIndex = UINT32_MAX
           THEN Native(TRUE, TRUE, ListVal(list.count), list.count > 0,
                       IF list.count > 0 THEN "undefined" ELSE "ok", list)
           ELSE Native(TRUE, FALSE, ListVal(calculateRange(from, to, list.count).count),
                       TRUE, "ok", list)
      [] OTHER -> Native(FALSE, TRUE, Undefined, FALSE, "ok", list)

mapGet(map, key) ==
    The({CASE found.outcome = "entry" ->
                [st |-> "ok", value |-> map.entries[found.index + 1].value]
           [] found.outcome = "NULL" -> [st |-> "ok", value |-> Undefined]
           [] OTHER -> [st |-> "undefined", value |-> Undefined] :
            found \in {findEntry(map, key)}})

primMapSubscript(map, key, list) ==
    IF ~validateKey(key) THEN Native(FALSE, TRUE, Undefined, FALSE, "ok", list)
    ELSE Native(TRUE, FALSE,
                IF VALUE_IS_UNDEFINED(mapGet(map, key).value) THEN Null
                ELSE mapGet(map, key).value,
                map.capacity # 0, mapGet(map, key).st, list)

\* the elements of a list, in order
Elements(list) == [i \in 1..list.count |-> list.datas[i]]

\* ghost fields of outcome: count is the count of the list or the map before
\* the native ran; inserted is the last insert when the operation before was
\* an insert at an index below the count; roundTrip is that insert when the
\* operation is the removeAt of the same index; ops counts the operations
NoInsert == [valid |-> FALSE, index |-> 0, value |-> Undefined, elements |-> <<>>]

NoListOp ==
    [op |-> "none", ret |-> TRUE, error |-> FALSE, value |-> Undefined, read |-> FALSE,
     count |-> 0, inserted |-> NoInsert, roundTrip |-> NoInsert, ops |-> 0]

\* the list n calls of add make of a new list
RECURSIVE Added(_)
Added(n) ==
    IF n = 0 THEN newObjList(0)
    ELSE ValueBufferAdd(Added(n - 1), NUM_TO_VALUE(1 + (n % MaxMapValue)))

InitList ==
    /\ InitVM
    /\ InitClass
    /\ allMethodNames = <<>>
    /\ code = <<>>
    /\ module = NoModule
    /\ cu = NoCompileUnit
    /\ objList \in {Added(0), Added(4), Added(5)}
    /\ objMap \in {newObjMap, Collided}
    /\ outcome = NoListOp

\* a native of fiber curThread returns r: the error object is set and the
\* dispatch loop goes on, or the program is over
ListStep(op, r, count, inserted, roundTrip) ==
    /\ threads' = IF r.error THEN SET_ERROR_FALSE(threads, curThread).T ELSE threads
    /\ vmResult' = IF r.st = "ok" THEN "running" ELSE r.st
    /\ objList' = r.list
    /\ outcome' = [op |-> op, ret |-> r.ret, error |-> r.error, value |-> r.value,
                   read |-> r.read, count |-> count, inserted |-> inserted,
                   roundTrip |-> roundTrip, ops |-> outcome.ops + 1]
    /\ UNCHANGED <<objMap, curThread, upvalues, allModules, last, classes, bound,
                   dispatch, allMethodNames, code, module, cu>>

ListRunning == vmResult = "running" /\ outcome.ops < MaxListOps

ListAdd(value) ==
    /\ ListRunning
    /\ objList.count < MaxListLen
    /\ ListStep("add", primListAdd(objList, value), objList.count, NoInsert, NoInsert)

ListInsert(index, value) ==
    /\ ListRunning
    /\ objList.count < MaxListLen
    /\ \E r \in {primListInsert(objList, index, value)} :
         ListStep("insert", r, objList.count,
                  IF r.ret /\ r.st = "ok" /\ index >= 0 /\ index < 2 * objList.count
                  THEN [valid |-> TRUE, index |-> index, value |-> value,
                        elements |-> Elements(objList)]
                  ELSE NoInsert,
                  NoInsert)

ListRemoveAt(index) ==
    /\ ListRunning
    /\ ListStep("removeAt", primListRemoveAt(objList, index), objList.count, NoInsert,
                IF outcome.inserted.valid /\ outcome.inserted.index = index
                THEN outcome.inserted ELSE NoInsert)

ListSubscript(kind, from, to) ==
    /\ ListRunning
    /\ ListStep("listSubscript", primListSubscript(objList, kind, from, to),
                objList.count, NoInsert, NoInsert)

MapSubscript(key) ==
    /\ ListRunning
    /\ ListStep("mapSubscript", primMapSubscript(objMap, key, objList), objMap.count,
                NoInsert, NoInsert)

\* the indexes of the natives: -1, 0.5 and 0, 1, .. MaxListLen
ListIndexes == {-2, 1} \cup {2 * i : i \in 0..MaxListLen}

NextList ==
    \/ \E n \in 1..MaxMapValue : ListAdd(NUM_TO_VALUE(n))
    \/ \E index \in ListIndexes, n \in 1..MaxMapValue : ListInsert(index, NUM_TO_VALUE(n))
    \/ \E index \in ListIndexes : ListRemoveAt(index)
    \/ \E from \in {-2, 0, 1, 2} : ListSubscript("num", from, 0)
    \/ \E from \in {-2, 0, 1}, to \in {0, 2} : ListSubscript("range", from, to)
    \/ ListSubscript("other", 0, 0)
    \/ \E key \in MapKeys \cup {ClosureVal} : MapSubscript(key)

SpecList == InitList /\ [][NextList]_vars

\* ------------------------------------------------------- fibers: properties
Top(t) == t.stk[Len(t.stk)]

\* the call executed last found its target finished, aborted or already called
CallRefused ==
    /\ last.op = "ThreadCall"
    /\ \/ last.tgtUsedFrameNum = 0
       \/ ~VALUE_IS_NULL(last.tgtErrorObj)
       \/ last.tgtCaller # 0

\* the call executed last found a target that can be resumed
CallSucceeded ==
    /\ last.op = "ThreadCall"
    /\ last.tgtUsedFrameNum > 0
    /\ VALUE_IS_NULL(last.tgtErrorObj)
    /\ last.tgtCaller = 0

C2_CallSwitches ==
    CallSucceeded =>
        /\ vmResult = "running"
        /\ curThread = last.tgt
        /\ threads[last.tgt].caller = last.th
        /\ Top(threads[last.tgt]) = last.val

\* C3: after a fiber that has a caller has executed Thread.yield(v) or
\* Thread.yield(), the caller is the current fiber and the top slot of its
\* stack holds v (Null for yield()).
C3_YieldHandsValue ==
    (last.op = "ThreadYield" /\ last.caller # 0) =>
        /\ vmResult = "running"
        /\ curThread = last.caller
        /\ Top(threads[last.caller]) = last.val

\* C4: after the outermost function of a fiber has returned: if the fiber had
\* a caller, the caller is the current fiber and the top slot of its stack
\* holds the return value; if it had none, the fiber's stack holds the return
\* value at its base and nothing else (esp = stack + 1) and the dispatch loop
\* has returned Success.
C4_OutermostReturn ==
    (last.op = "Return" /\ last.outermost) =>
        IF last.caller # 0
        THEN /\ vmResult = "running"
             /\ curThread = last.caller
             /\ Top(threads[last.caller]) = last.val
        ELSE /\ vmResult = "success"
             /\ threads[last.th].stk = <<last.val>>

\* the instruction executed last has changed vm->curThread
FiberChanged == last.op # "none" /\ curThread # last.th

\* C5 (as written): the fiber being executed changes only when a native method
\* has returned false.
C5_OnlyNativeFalse == FiberChanged => last.ret = "false"

\* C5 (amended): the fiber being executed changes only when a native method
\* has returned false, or when the outermost function of a fiber that has a
\* caller returns.
C5_NativeFalseOrReturn ==
    FiberChanged =>
        \/ last.ret = "false"
        \/ last.op = "Return" /\ last.outermost /\ last.caller # 0

\* the code of an imported module has returned to the importing fiber
C5_Witness ==
    /\ last.op = "Return" /\ last.outermost /\ last.caller # 0
    /\ ~threads[last.th].known
    /\ curThread = last.caller /\ curThread # last.th
    /\ vmResult = "running"

\* a call(_) with a string has resumed another fiber
C2_Witness ==
    /\ CallSucceeded /\ last.tgt # last.th /\ last.val = ObjStr
    /\ curThread = last.tgt /\ vmResult = "running"

\* C10: whenever a native method has returned false, the errorObj of the fiber
\* that called it is non-null or vm->curThread is no longer that fiber.
C10_FalseMeansErrorOrSwitch ==
    last.ret = "false" =>
        \/ ~VALUE_IS_NULL(threads[last.th].errorObj)
        \/ curThread # last.th

\* the dispatch loop has surfaced a runtime error: the native executed last
\* returned false and left a non-null errorObj in the fiber that called it
ErrorSurfaced == last.ret = "false" /\ ~VALUE_IS_NULL(threads[last.th].errorObj)

\* C11: after a native has returned false and the dispatch loop has handled
\* the return, the errorObj of the fiber that called it is Null: an error that
\* was signalled has been surfaced and cleared.
C11_ErrorSlotNulled ==
    last.ret = "false" => VALUE_IS_NULL(threads[last.th].errorObj)

\* C12: after a native call has failed with a runtime error, the stack of the
\* calling fiber ends at the receiver slot args[0], one slot above where it
\* stood before the receiver and the arguments were pushed, and that slot
\* holds Null.
C12_ErrorCallGivesNull ==
    (ErrorSurfaced /\ vmResult # "undefined") =>
        /\ StackSlots(threads[last.th]) = last.entry + 1
        /\ Top(threads[last.th]) = Null

\* C13: after a runtime error of a fiber that has no caller has been surfaced,
\* the VM is no longer running.
C13_TopLevelErrorTerminates ==
    (ErrorSurfaced /\ last.caller = 0) => vmResult # "running"

\* ------------------------------------------------------- module variables: properties
\* C17: the compilation of a module fails when the source ends if and only if
\* some module variable was referenced before its definition and is still not
\* defined; after a compilation that succeeds no variable holds the Number
\* of a forward reference.
C17_FinalizationFailsIffPending ==
    outcome.op = "finished" =>
        /\ (outcome.result = "error") <=> (outcome.pending # {})
        /\ outcome.result = "ok" =>
               \A idx \in 1..Len(module.moduleVarValue) :
                   ~VALUE_IS_NUM(module.moduleVarValue[idx])

\* C18: declaring at module scope a name the module already defines is a
\* compile error, and declaring any other name is not; declaring a name that
\* is a pending forward reference resolves it (no entry of that name keeps
\* its Number).
C18_RedefinitionIsError ==
    outcome.op = "declare" =>
        /\ (outcome.result = "error") <=> outcome.wasDefined
        /\ (outcome.wasPending /\ outcome.result = "declared") =>
               \A idx \in 1..Len(module.moduleVarName) :
                   module.moduleVarName[idx].str = outcome.name =>
                       ~VALUE_IS_NUM(module.moduleVarValue[idx])

\* ------------------------------------------------------- local variables: properties
\* C19: declaring a local whose name is that of a local already declared at
\* the same scope depth of the unit is a compile error; a name that is only
\* declared at another scope depth is accepted.
C19_DuplicateLocalIsError ==
    (outcome.op = "declareLocal" /\ outcome.before < MAX_LOCAL_VAR_NUM) =>
        /\ outcome.duplicate => outcome.result = "error"
        /\ (outcome.outer /\ ~outcome.duplicate) => outcome.result = "declared"

\* C20: a compile unit never holds more than 128 locals: the declaration made
\* with 128 locals in the unit is a compile error and writes no entry.
C20_LocalLimit ==
    /\ Len(cu.localVars) <= MAX_LOCAL_VAR_NUM
    /\ (outcome.op = "declareLocal" /\ outcome.before >= MAX_LOCAL_VAR_NUM) =>
           outcome.result = "error"

\* ------------------------------------------------------- classes: properties
\* C14: for a class C that defines a constructor new(...), C.new(args) with as
\* many arguments ends and gives an instance of C: the call is compiled to
\* the symbol the class definition bound the static method under, running
\* the module does not fail, and the call gives the instance.
C14_NewYieldsInstance ==
    /\ outcome.op \in {"call", "run", "new"} =>
           /\ outcome.call = outcome.static
           /\ vmResult = "running"
    /\ outcome.op = "new" => outcome.result = "instance"

\* the class c and the classes it was declared to extend, directly or not
RECURSIVE SuperChain(_)
SuperChain(c) == IF c = 0 THEN {} ELSE {c} \cup SuperChain(classes[c].parent)

\* C15: is(X) on a receiver of class C gives true if X is C or is on the
\* chain of base classes of C, and false otherwise.
C15_IsWalksSuperChain ==
    outcome.op = "is" =>
        outcome.result = IF outcome.arg \in SuperChain(outcome.class) THEN "true" ELSE "false"

\* C16: a class created with f fields of its own and base class S has the
\* field count S.fieldNum + f, and an instance of a class has as many field
\* slots as the class's field count.
C16_FieldNumIncludesInherited ==
    /\ \A c \in 1..Len(classes) :
           classes[c].parent # 0 =>
               classes[c].fieldNum = classes[classes[c].parent].fieldNum + classes[c].ownFields
    /\ outcome.op = "instance" =>
           /\ outcome.fields # "diverges"
           /\ Len(outcome.fields) = classes[outcome.class].fieldNum

\* ------------------------------------------------------- frames: properties
\* C6: when a called function returns to the function that called it, the
\* stack is exactly one slot higher than it stood before the receiver and the
\* arguments of the call were pushed, and that slot holds the return value.
C6_NetStackEffect ==
    (last.op = "Return" /\ ~last.outermost) =>
        /\ vmResult = "running"
        /\ StackSlots(threads[last.th]) = last.entry + 1
        /\ Top(threads[last.th]) = last.val

\* a call with an argument, made above a local and on a stack that has moved,
\* has returned a string
C6_Witness ==
    /\ last.op = "Return" /\ ~last.outermost
    /\ last.entry >= 1 /\ last.val = ObjStr
    /\ threads[last.th].stack # 0
    /\ StackSlots(threads[last.th]) = last.entry + 1

\* C7: immediately after a Return no upvalue on the fiber's open list points at
\* or above the base of the frame just popped, and immediately after a
\* CloseUpvalue none points at or above the slot just popped.
C7_NoOpenUpvalueAbove ==
    last.op \in {"Return", "CloseUpvalue"} =>
        \A i \in 1..Len(threads[last.th].openUpvalues) :
            upvalues[threads[last.th].openUpvalues[i]].localVarPtr < last.ptr

\* a CloseUpvalue has closed the upvalue of the popped local and left the
\* upvalue of a lower local open
C7_Witness ==
    /\ last.op = "CloseUpvalue"
    /\ \E u \in 1..Len(upvalues) : upvalues[u].closed
    /\ threads[last.th].openUpvalues # <<>>

\* ------------------------------------------------------- method tables: properties
\* the symbols bound on class c by InstanceMethod/StaticMethod ("own") or
\* copied to it from its super class ("inherited")
Symbols(c, how) == {b[2] : b \in {x \in bound : x[1] = c /\ x[3] = how}}

\* C8: every method bound with InstanceMethod on class C (with StaticMethod: on
\* the meta class of C) with symbol s is found in the methods of that class at
\* index s, below count, with a type other than None, and every slot below the
\* largest bound symbol that holds no bound or inherited method has type None.
C8_BoundMethodsFound ==
    \A c \in 1..Len(classes) :
        /\ \A s \in Symbols(c, "own") :
               /\ s < classes[c].methods.count
               /\ classes[c].methods.datas[s + 1] \in MethodTypes \ {"MT_NONE"}
        /\ \A s \in Symbols(c, "own"), i \in 0..MaxSymbol :
               (i < s /\ i \notin Symbols(c, "own") \cup Symbols(c, "inherited")) =>
                   /\ i < classes[c].methods.count
                   /\ classes[c].methods.datas[i + 1] = "MT_NONE"

\* C9: a CallN or SuperN whose index is not below the count of the methods of
\* the class, or whose slot has type None, raises the method-not-found error,
\* and no entry at an index at or above count is dispatched.
C9_MethodNotFound ==
    dispatch.op # "none" =>
        /\ (dispatch.index >= dispatch.count \/ dispatch.kind = "MT_NONE") =>
               dispatch.outcome = "error"
        /\ dispatch.outcome = "dispatched" => dispatch.index < dispatch.count

\* ------------------------------------------------------- maps: properties
\* C21: after every insertion into a map, count <= 0.8 * capacity.
C21_LoadAfterInsert ==
    outcome.op = "set" => ~AboveLoad(objMap.count, objMap.capacity)

\* an insertion that made the table of 51 entries grow from 64 to 256 slots
C21_Witness ==
    /\ outcome.op = "set"
    /\ outcome.capacity = MIN_CAPACITY
    /\ objMap.capacity = MIN_CAPACITY * CAPACITY_GROW_FACTOR
    /\ objMap.count = 52

\* a removeKey that found the key and left count below 0.8 * (capacity / 4)
\* and above 64, capacity being that of the table before the deletion
ShrinkingDelete ==
    /\ outcome.op = "remove"
    /\ VALUE_IS_NUM(outcome.result)
    /\ 10 * objMap.count < 8 * (outcome.capacity \div 4)
    /\ objMap.count > 64

\* no deletion brings the capacity of a map that is not empty below 64
NeverBelowMinimum ==
    (outcome.op = "remove" /\ objMap.count > 0) => objMap.capacity >= 64

\* C22 as stated: after a deletion that leaves count < capacity / 4 * 0.8 and
\* count > 64 the capacity is half of what it was, and no deletion brings the
\* capacity of a map that is not empty below 64.
C22_CapacityHalves ==
    /\ ShrinkingDelete => 2 * objMap.capacity = outcome.capacity
    /\ NeverBelowMinimum

\* C22 amended: after such a deletion the capacity is a quarter of what it
\* was, and no deletion brings the capacity of a map that is not empty below
\* 64.
C22_CapacityQuarters ==
    /\ ShrinkingDelete => 4 * objMap.capacity = outcome.capacity
    /\ NeverBelowMinimum

\* a deletion that took the table of 205 entries from 1024 slots to 256
C22_Witness ==
    /\ ShrinkingDelete
    /\ outcome.capacity = 1024
    /\ objMap.capacity = 256
    /\ objMap.count = 204

\* the slots of the table that hold a live entry
LiveSlots == {i \in 1..objMap.capacity : ~VALUE_IS_UNDEFINED(objMap.entries[i].key)}

\* the value a lookup of key is to give: that of the last set of the key not
\* followed by its removal, Undefined for an absent key
Expected(key) ==
    IF \E pair \in outcome.contents : pair[1] = key
    THEN (CHOOSE pair \in outcome.contents : pair[1] = key)[2]
    ELSE Undefined

\* C27: a lookup of a key gives the value of the most recent set of the key
\* if the key was not removed since and reports it absent otherwise, and each
\* key occupies at most one live entry of the table.
C27_LookupGivesLastSet ==
    /\ outcome.op = "get" => outcome.result = Expected(outcome.key)
    /\ Cardinality(LiveSlots) = Cardinality({objMap.entries[i].key : i \in LiveSlots})

\* C28: every lookup or removal of a key that is not in the map terminates,
\* and a table with capacity > 0 holds at least one slot never used (key
\* Undefined, value False).
C28_ProbeTerminates ==
    /\ outcome.op \in {"get", "remove"} => vmResult # "undefined"
    /\ (outcome.op # "none" /\ objMap.capacity > 0) =>
          \E i \in 1..objMap.capacity :
             /\ VALUE_IS_UNDEFINED(objMap.entries[i].key)
             /\ objMap.entries[i].value = False

C26_EmptySubscriptIsError ==
    (outcome.op \in {"listSubscript", "mapSubscript"} /\ outcome.count = 0) =>
        /\ ~outcome.ret
        /\ outcome.error
        /\ ~outcome.read

\* ------------------------------------------------------- natives: properties
\* C24: Thread.new(f) with a closure f as its one argument returns a new fiber
\* that was not started and whose single frame executes f: the fiber is built
\* from the argument, not from the receiver.
C24_ThreadNewRunsArgument ==
    (last.op = "ThreadNew" /\ last.val.type = "OT_CLOSURE") =>
        /\ last.ret = "true"
        /\ Top(threads[last.th]) = ThreadVal(last.tgt)
        /\ threads[last.tgt].alloc
        /\ threads[last.tgt].caller = 0
        /\ Len(threads[last.tgt].frames) = 1
        /\ threads[last.tgt].frames[1].closure = last.val

\* C25: System.importModule(name) for a name that is registered returns Null
\* without compiling or running the module again and without switching
\* fibers; an import makes a fiber only for a name that was not registered and
\* registers it, and no name is ever unregistered, so that the code of each
\* module is run at most once.
C25_RegisteredImportGivesNull ==
    [][/\ allModules \subseteq allModules'
       /\ last'.op = "ImportModule" =>
             /\ last'.val \in allModules =>
                   /\ last'.ret = "true"
                   /\ Top(threads'[curThread]) = Null
                   /\ curThread' = curThread
                   /\ Allocated' = Allocated
                   /\ allModules' = allModules
             /\ Allocated' # Allocated =>
                   /\ last'.val \notin allModules
                   /\ last'.val \in allModules']_vars

\* a second import of a module: the native returned true with Null while the
\* fiber of the first import exists
C25_Witness ==
    /\ last.op = "ImportModule"
    /\ last.ret = "true"
    /\ last.val \in allModules
    /\ Top(threads[curThread]) = Null
    /\ Cardinality(Allocated) >= 2

\* following the caller links from fiber i reaches a fiber without a caller
\* in at most n steps
RECURSIVE CallerChainEnds(_, _)
CallerChainEnds(i, n) ==
    \/ threads[i].caller = 0
    \/ n > 0 /\ CallerChainEnds(threads[i].caller, n - 1)

\* C29: following the caller links from any fiber reaches a fiber with no
\* caller in finitely many steps: no fiber is its own direct or indirect
\* caller, and the running fiber in particular cannot resume itself.
C29_CallerChainsEnd ==
    \A i \in Allocated : CallerChainEnds(i, MaxThreads)

\* ------------------------------------------------------- upvalues: properties
\* C30: the open-upvalue list of each fiber is strictly descending by captured
\* stack slot, so that no slot is referred to by two open upvalues and two
\* closures that capture the same live local share one upvalue.
C30_OpenUpvaluesDescending ==
    \A t \in Allocated :
        \A i, j \in 1..Len(threads[t].openUpvalues) :
            i < j => /\ ~upvalues[threads[t].openUpvalues[i]].closed
                     /\ upvalues[threads[t].openUpvalues[i]].localVarPtr
                           > upvalues[threads[t].openUpvalues[j]].localVarPtr

\* a closure was created while the fiber, whose stack a reallocation has
\* moved, holds two open upvalues
C30_Witness ==
    /\ last.op = "CreateClosure"
    /\ Len(threads[last.th].openUpvalues) = 2
    /\ Len(upvalues) = 2
    /\ threads[last.th].stack # 0

\* C31: closing an upvalue is one-way: when it is closed the upvalue holds the
\* value its stack slot had at that moment, from then on it refers to its own
\* storage only, never again to a stack slot, and it is on no fiber's open
\* list.
C31_ClosingIsOneWay ==
    [][\A u \in 1..Len(upvalues') :
          /\ (u <= Len(upvalues) /\ upvalues[u].closed) => upvalues'[u] = upvalues[u]
          /\ (u <= Len(upvalues) /\ ~upvalues[u].closed /\ upvalues'[u].closed) =>
                upvalues'[u].closedUpvalue =
                   threads[last'.th].stk[SlotIndex(threads[last'.th],
                                                   upvalues[u].localVarPtr)]
          /\ upvalues'[u].closed =>
                /\ upvalues'[u].localVarPtr = -1
                /\ \A t \in ThreadIds :
                      \A i \in 1..Len(threads'[t].openUpvalues) :
                         threads'[t].openUpvalues[i] # u]_vars

\* an upvalue was closed with a string in its slot, and the fiber has pushed
\* a value since
C31_Witness ==
    /\ last.op = "Push"
    /\ \E u \in 1..Len(upvalues) :
          upvalues[u].closed /\ upvalues[u].closedUpvalue = ObjStr

\* ------------------------------------------------------- symbols: properties
\* C32: vm->allMethodNames gives every distinct signature string one index,
\* which never changes: interning a string that is in the table gives its
\* index and does not grow the table, and two strings never share an index.
C32_OneIndexPerSignature ==
    \A i, j \in 1..Len(allMethodNames) :
        allMethodNames[i].str = allMethodNames[j].str => i = j

\* ------------------------------------------------------- jumps and loops
\* SpecJump: a module of one or two statements (expression statements, blocks,
\* if, while, break) is compiled into the instruction stream of its unit and
\* the stream is then run. Offsets are those of C: the byte at offset i of
\* instrStream is datas[i + 1].

\* the opcodes, numbered in the order of the instruction table
OPCODE_LOAD_CONSTANT == 0
OPCODE_PUSH_NULL == 1
OPCODE_PUSH_TRUE == 2
OPCODE_PUSH_FALSE == 3
OPCODE_LOAD_LOCAL_VAR == 4
OPCODE_STORE_LOCAL_VAR == 5
OPCODE_LOAD_UPVALUE == 6
OPCODE_STORE_UPVALUE == 7
OPCODE_LOAD_MODULE_VAR == 8
OPCODE_STORE_MODULE_VAR == 9
OPCODE_POP == 14
OPCODE_JUMP == 49
OPCODE_LOOP == 50
OPCODE_JUMP_IF_FALSE == 51
OPCODE_AND == 52
OPCODE_OR == 53
OPCODE_RETURN == 55
OPCODE_END == 61

\* NOT_REACHED(): prints and spins in while (1)
NotReached == 0 - 1

\* what getBytesOfOperands returns when leaveLoopSetting hands it the address
\* of instrStream.datas for the instructions: the opcode it switches on is a
\* byte of the buffer header, so the result is the width of any opcode, that
\* of a CREATE_CLOSURE whose function constant is junk, or NOT_REACHED
Misreads == {0, 1, 2, 4, 2 + 2 * MaxJunkUpvalueNum, NotReached}

Replaced(datas, index, byte) ==
    SubSeq(datas, 1, index) \o <<byte>> \o SubSeq(datas, index + 2, Len(datas))

\* the compile unit of the model: the instruction stream and the constants
\* of its function, the Loop records from cu->curLoop outwards (innermost
\* last), how the compilation stands, and for the record the offsets opcodes
\* were written at, the placeholders patched, the breaks compiled and the
\* loops left; source is the text it compiles
newUnit(source) ==
    [datas |-> <<>>, constants |-> <<>>, loops |-> <<>>, st |-> "ok", opcodes |-> {},
     patched |-> {}, breaks |-> {}, whiles |-> {}, source |-> source]

writeByte(unit, byte) == [unit EXCEPT !.datas = Append(unit.datas, byte % 256)]

writeOpCode(unit, opCode) ==
    [writeByte(unit, opCode) EXCEPT !.opcodes = @ \cup {Len(unit.datas)}]

writeOpCodeByteOperand(unit, opCode, operand) ==
    writeByte(writeOpCode(unit, opCode), operand)

writeShortOperand(unit, operand) ==
    writeByte(writeByte(unit, (operand \div 256) % 256), operand % 256)

writeOpCodeShortOperand(unit, opCode, operand) ==
    writeShortOperand(writeOpCode(unit, opCode), operand)

\* the unit after the instruction, and the offset of the first placeholder byte
emitIntstrWithPlaceholder(unit, opCode) ==
    <<writeByte(writeByte(writeOpCode(unit, opCode), 255), 255), Len(unit.datas) + 1>>

\* (offset >> 8) && 0xff and offset && 0xff are logical conjunctions: each
\* byte is 1 when its left operand is not zero, else 0
patchPlaceHolder(unit, absIndex) ==
    LET offset == Len(unit.datas) - absIndex - 2
    IN  [unit EXCEPT
           !.datas = Replaced(Replaced(unit.datas, absIndex,
                                       BoolToInt(offset \div 256 # 0 /\ 255 # 0)),
                              absIndex + 1, BoolToInt(offset # 0 /\ 255 # 0)),
           !.patched = @ \cup {[at |-> absIndex, target |-> Len(unit.datas)]}]

\* READ_SHORT with ip at the first operand byte
READ_SHORT(datas, ip) == datas[ip + 1] * 256 + datas[ip + 2]

\* the value as the int16_t the dispatch loop stores it in
Int16(v) == IF v >= 32768 THEN v - 65536 ELSE v

\* the operand bytes the dispatch loop reads for an opcode with READ_BYTE and
\* READ_SHORT
operandsRead(opCode) ==
    CASE opCode \in {OPCODE_LOAD_LOCAL_VAR, OPCODE_STORE_LOCAL_VAR, OPCODE_LOAD_UPVALUE,
                     OPCODE_STORE_UPVALUE} -> 1
      [] opCode \in {OPCODE_LOAD_CONSTANT, OPCODE_LOAD_MODULE_VAR, OPCODE_STORE_MODULE_VAR,
                     OPCODE_JUMP, OPCODE_LOOP, OPCODE_JUMP_IF_FALSE, OPCODE_AND,
                     OPCODE_OR} -> 2
      [] OTHER -> 0

addConstant(unit, constant) ==
    <<[unit EXCEPT !.constants = Append(unit.constants, constant)], Len(unit.constants)>>

emitLoadConstant(unit, constant) ==
    LET added == addConstant(unit, constant)
    IN  writeOpCodeShortOperand(added[1], OPCODE_LOAD_CONSTANT, added[2])

\* a Variable of the module scope
ModuleVariable(index) == [scopeType |-> "VAR_SCOPE_MODULE", index |-> index]

emitLoadVariable(unit, var) ==
    CASE var.scopeType = "VAR_SCOPE_LOCAL" ->
            writeOpCodeByteOperand(unit, OPCODE_LOAD_LOCAL_VAR, var.index)
      [] var.scopeType = "VAR_SCOPE_UPVALUE" ->
            writeOpCodeByteOperand(unit, OPCODE_LOAD_UPVALUE, var.index)
      [] var.scopeType = "VAR_SCOPE_MODULE" ->
            writeOpCodeByteOperand(unit, OPCODE_LOAD_MODULE_VAR, var.index)

emitStoreVariable(unit, var) ==
    CASE var.scopeType = "VAR_SCOPE_LOCAL" ->
            writeOpCodeByteOperand(unit, OPCODE_STORE_LOCAL_VAR, var.index)
      [] var.scopeType = "VAR_SCOPE_UPVALUE" ->
            writeOpCodeByteOperand(unit, OPCODE_STORE_UPVALUE, var.index)
      [] var.scopeType = "VAR_SCOPE_MODULE" ->
            writeOpCodeByteOperand(unit, OPCODE_STORE_MODULE_VAR, var.index)

\* boolean: the literal true or false
boolean(unit, lit) ==
    writeOpCode(unit, IF lit THEN OPCODE_PUSH_TRUE ELSE OPCODE_PUSH_FALSE)

\* logicAnd and logicOr, with a literal as the right operand
logicAnd(unit, rhs) ==
    LET p == emitIntstrWithPlaceholder(unit, OPCODE_AND)
    IN  patchPlaceHolder(boolean(p[1], rhs), p[2])

logicOr(unit, rhs) ==
    LET p == emitIntstrWithPlaceholder(unit, OPCODE_OR)
    IN  patchPlaceHolder(boolean(p[1], rhs), p[2])

\* expression: lit, lit && rhs, lit || rhs, a number literal, the module
\* variable x (id: emitLoadOrStoreVariable) or the assignment x = rhs
expression(unit, e) ==
    CASE e.op = "and" -> logicAnd(boolean(unit, e.lit), e.rhs)
      [] e.op = "or" -> logicOr(boolean(unit, e.lit), e.rhs)
      [] e.op = "literal" -> emitLoadConstant(unit, "num")
      [] e.op = "load" -> emitLoadVariable(unit, ModuleVariable(e.index))
      [] e.op = "store" ->
            emitStoreVariable(boolean(unit, e.rhs), ModuleVariable(e.index))
      [] OTHER -> boolean(unit, e.lit)

curLoop(unit) == unit.loops[Len(unit.loops)]

\* a Loop record whose condStartIndex is the offset of the condition
enterLoopSettingAtCondition(unit) ==
    [unit EXCEPT !.loops = Append(unit.loops,
        [condStartIndex |-> Len(unit.datas), bodyStartIndex |-> 0, exitIndex |-> 0,
         cond |-> Len(unit.datas)])]

\* cond is the offset the condition starts at, for the record
enterLoopSetting(unit) ==
    [unit EXCEPT !.loops = Append(unit.loops,
        [condStartIndex |-> Len(unit.datas) - 1, bodyStartIndex |-> 0, exitIndex |-> 0,
         cond |-> Len(unit.datas)])]

\* the walk of leaveLoopSetting over the body: an OPCODE_END becomes a patched
\* OPCODE_JUMP and idx moves on by 3; after any other instruction idx is set
\* to 1 + getBytesOfOperands(&datas, ...). A walk that has taken more steps
\* than the stream has bytes visits an offset again and never ends.
RECURSIVE leaveLoopWalk(_, _, _, _, _)
leaveLoopWalk(unit, idx, loopEndIndex, misread, fuel) ==
    IF idx >= loopEndIndex THEN unit
    ELSE IF fuel = 0 THEN [unit EXCEPT !.st = "undefined"]
    ELSE IF unit.datas[idx + 1] = OPCODE_END
    THEN leaveLoopWalk(
             patchPlaceHolder([unit EXCEPT !.datas = Replaced(unit.datas, idx, OPCODE_JUMP)],
                              idx + 1),
             idx + 3, loopEndIndex, misread, fuel - 1)
    ELSE IF misread = NotReached THEN [unit EXCEPT !.st = "undefined"]
    ELSE leaveLoopWalk(unit, 1 + misread, loopEndIndex, misread, fuel - 1)

leaveLoopSetting(unit, misread) ==
    LET loop == curLoop(unit)
        loopBackOffset == Len(unit.datas) - loop.condStartIndex + 2
        looped == writeOpCodeShortOperand(unit, OPCODE_LOOP, loopBackOffset)
        exited == patchPlaceHolder(looped, loop.exitIndex)
        walked == leaveLoopWalk(exited, loop.bodyStartIndex, Len(exited.datas), misread,
                                Len(exited.datas))
    IN  [walked EXCEPT
           !.loops = SubSeq(unit.loops, 1, Len(unit.loops) - 1),
           !.whiles = @ \cup {[cond |-> loop.cond, at |-> Len(unit.datas)]},
           !.breaks = {IF b.end = -1 /\ b.at >= loop.bodyStartIndex
                       THEN [b EXCEPT !.end = Len(exited.datas)] ELSE b : b \in @}]

\* compileBreak; the statements of the model declare no variable, so that
\* discardLocalVar has nothing to discard
compileBreak(unit) ==
    IF unit.loops = <<>> THEN [unit EXCEPT !.st = "exit"]
    ELSE [emitIntstrWithPlaceholder(unit, OPCODE_END)[1] EXCEPT
            !.breaks = @ \cup {[at |-> Len(unit.datas), end |-> -1]}]

\* compileStatement. A statement is <<"expr", e>>, <<"block", statements>>,
\* <<"if", e, then>>, <<"ifelse", e, then, else>>, <<"while", opening, e, body>>
\* (compileWhileStatement asserts TOKEN_RIGHT_PAREN before the condition) or
\* <<"break">>.
RECURSIVE compileStatement(_, _, _)
RECURSIVE compileBlock(_, _, _)
compileIfStatement(unit, stmt, misread) ==
    LET falseBranchStart == emitIntstrWithPlaceholder(expression(unit, stmt[2]),
                                                      OPCODE_JUMP_IF_FALSE)
        then == compileStatement(falseBranchStart[1], stmt[3], misread)
        falseBranchEnd == emitIntstrWithPlaceholder(then, OPCODE_JUMP)
    IN  IF then.st # "ok" THEN then
        ELSE IF stmt[1] = "ifelse"
        THEN LET else == compileStatement(
                             patchPlaceHolder(falseBranchEnd[1], falseBranchStart[2]),
                             stmt[4], misread)
             IN  IF else.st # "ok" THEN else
                 ELSE patchPlaceHolder(else, falseBranchEnd[2])
        ELSE patchPlaceHolder(then, falseBranchStart[2])

compileWhileStatement(unit, stmt, misread) ==
    LET entered == enterLoopSetting(unit)
        exit == emitIntstrWithPlaceholder(expression(entered, stmt[3]),
                                          OPCODE_JUMP_IF_FALSE)
        loop == [curLoop(entered) EXCEPT !.exitIndex = exit[2],
                                         !.bodyStartIndex = Len(exit[1].datas)]
        body == compileStatement(
                    [exit[1] EXCEPT !.loops = Append(unit.loops, loop)],
                    stmt[4], misread)
    IN  IF stmt[2] # ")" THEN [entered EXCEPT !.st = "exit"]
        ELSE IF body.st # "ok" THEN body
        ELSE leaveLoopSetting(body, misread)

compileStatement(unit, stmt, misread) ==
    CASE stmt[1] \in {"if", "ifelse"} -> compileIfStatement(unit, stmt, misread)
      [] stmt[1] = "while" -> compileWhileStatement(unit, stmt, misread)
      [] stmt[1] = "break" -> compileBreak(unit)
      [] stmt[1] = "block" -> compileBlock(unit, stmt[2], misread)
      [] OTHER -> writeOpCode(expression(unit, stmt[2]), OPCODE_POP)

\* compileBlock: the statements up to the closing brace
compileBlock(unit, statements, misread) ==
    IF statements = <<>> \/ unit.st # "ok" THEN unit
    ELSE compileBlock(compileStatement(unit, Head(statements), misread),
                      Tail(statements), misread)

\* the sources SpecJump compiles
Expr(lit, op, rhs, index) == [lit |-> lit, op |-> op, rhs |-> rhs, index |-> index]

Literal(lit) == Expr(lit, "none", FALSE, 0)

Expressions ==
    {Literal(TRUE), Literal(FALSE), Expr(FALSE, "literal", FALSE, 0)}
       \cup {Expr(l, o, r, 0) : l, r \in BOOLEAN, o \in {"and", "or"}}
       \cup {Expr(FALSE, o, TRUE, i) : o \in {"load", "store"}, i \in 0..1}

Conditions ==
    {Literal(TRUE), Literal(FALSE), Expr(TRUE, "and", FALSE, 0),
     Expr(FALSE, "or", TRUE, 0)}

Leaves == {<<"expr", Literal(TRUE)>>, <<"break">>, <<"block", <<>>>>}

Branches ==
    Leaves
       \cup {<<"block", <<a, b>>>> : a, b \in {<<"expr", Literal(TRUE)>>, <<"break">>}}
       \cup {<<"if", Literal(lit), <<"break">>>> : lit \in BOOLEAN}

Whiles ==
    {<<"while", ")", c, b>> :
        c \in Conditions,
        b \in Branches \cup {<<"while", ")", Literal(FALSE), <<"break">>>>}}

Sources ==
    {<<<<"expr", e>>>> : e \in Expressions}
       \cup {<<<<"if", c, b>>>> : c \in Conditions, b \in Branches}
       \cup {<<<<"ifelse", Literal(lit), a, b>>>> : lit \in BOOLEAN, a, b \in Leaves}
       \cup {<<<<"while", "(", Literal(TRUE), <<"break">>>>>>}
       \cup {<<w>> : w \in Whiles}
       \cup {<<<<"expr", Literal(TRUE)>>, w>> : w \in Whiles}

\* the registers of the dispatch loop; at and offset are those of the
\* instruction executed last
NoJump == [op |-> "none", at |-> 0, offset |-> 0, ip |-> 0, stack |-> <<>>]

\* the module variables the core module gives every module
CoreModule == [moduleVarName |-> <<"x", "y">>, moduleVarValue |-> <<"null", "null">>]

InitJump ==
    /\ InitVM
    /\ InitClass
    /\ InitObjects
    /\ allMethodNames = <<>>
    /\ module = CoreModule
    /\ code = <<>>
    /\ cu \in {newUnit(source) : source \in Sources}
    /\ outcome = NoJump

\* compileModule: the statements up to the end of the text, then return null
\* and, from endCompileUnit, OPCODE_END. compileProgram passes the unit to
\* matchToken where the lexer is meant, which may crash.
CompileJumps(misread, crashed) ==
    /\ vmResult = "running"
    /\ outcome.op = "none"
    /\ UNCHANGED <<objMap, objList, threads, curThread, upvalues, allModules, last, classes,
                   bound, dispatch, allMethodNames, module>>
    /\ IF crashed
       THEN vmResult' = "undefined" /\ UNCHANGED <<code, cu, outcome>>
       ELSE \E unit \in {compileBlock(cu, cu.source, misread)} :
               /\ vmResult' = IF unit.st = "ok" THEN "running" ELSE unit.st
               /\ cu' = IF unit.st # "ok" THEN unit
                        ELSE writeOpCode(writeOpCode(writeOpCode(unit, OPCODE_PUSH_NULL),
                                                     OPCODE_RETURN), OPCODE_END)
               /\ code' = cu'.datas
               /\ outcome' = IF unit.st = "ok" THEN [NoJump EXCEPT !.op = "compiled"]
                             ELSE outcome

Falsey(v) == v \in {"false", "null"}

\* one turn of the dispatch loop of executeInstruction on the module's
\* instructions: what becomes of vmResult, the registers and the module.
\* ASSERT aborts in a DEBUG build and is empty otherwise; OPCODE_END and
\* unknown opcodes are NOT_REACHED; a read outside a buffer is undefined.
executeInstruction(regs, datas, constants, objModule, DEBUG) ==
    LET ip == regs.ip
        stack == regs.stack
        opCode == IF ip >= 0 /\ ip < Len(datas) THEN datas[ip + 1] ELSE NotReached
        short == IF ip + 2 < Len(datas) THEN READ_SHORT(datas, ip + 1) ELSE 0
        offset == Int16(short)
        top == IF stack = <<>> THEN "none" ELSE stack[Len(stack)]
        dropped == SubSeq(stack, 1, Len(stack) - 1)
        Lost == <<"undefined", regs, objModule>>
        Turn(op, operand, to, st) ==
            <<"running",
              [op |-> op, at |-> ip, offset |-> operand, ip |-> to, stack |-> st],
              objModule>>
        Jump(op, to, st) ==
            IF ip + 2 >= Len(datas) THEN Lost
            ELSE IF DEBUG /\ offset <= 0
            THEN <<"exit", [regs EXCEPT !.op = op, !.at = ip, !.offset = offset], objModule>>
            ELSE Turn(op, offset, to, st)
    IN  CASE opCode = OPCODE_PUSH_NULL -> Turn("PushNull", 0, ip + 1, Append(stack, "null"))
          [] opCode = OPCODE_PUSH_TRUE -> Turn("PushTrue", 0, ip + 1, Append(stack, "true"))
          [] opCode = OPCODE_PUSH_FALSE ->
                Turn("PushFalse", 0, ip + 1, Append(stack, "false"))
          [] opCode = OPCODE_LOAD_CONSTANT ->
                IF ip + 2 >= Len(datas) \/ short >= Len(constants) THEN Lost
                ELSE Turn("LoadConstant", short, ip + 3, Append(stack, constants[short + 1]))
          [] opCode = OPCODE_LOAD_MODULE_VAR ->
                IF ip + 2 >= Len(datas) \/ short >= Len(objModule.moduleVarValue) THEN Lost
                ELSE Turn("LoadModuleVar", short, ip + 3,
                          Append(stack, objModule.moduleVarValue[short + 1]))
          [] opCode = OPCODE_STORE_MODULE_VAR ->
                IF ip + 2 >= Len(datas) \/ short >= Len(objModule.moduleVarValue)
                      \/ stack = <<>> THEN Lost
                ELSE <<"running",
                       [op |-> "StoreModuleVar", at |-> ip, offset |-> short, ip |-> ip + 3,
                        stack |-> stack],
                       [objModule EXCEPT !.moduleVarValue =
                           [i \in 1..Len(@) |-> IF i = short + 1 THEN top ELSE @[i]]]>>
          [] opCode = OPCODE_POP ->
                IF stack = <<>> THEN Lost ELSE Turn("Pop", 0, ip + 1, dropped)
          [] opCode = OPCODE_JUMP -> Jump("Jump", ip + 3 + offset, stack)
          [] opCode = OPCODE_LOOP -> Jump("Loop", ip + 3 - offset, stack)
          [] opCode = OPCODE_JUMP_IF_FALSE ->
                IF stack = <<>> THEN Lost
                ELSE Jump("JumpIfFalse", IF Falsey(top) THEN ip + 3 + offset ELSE ip + 3,
                          dropped)
          [] opCode = OPCODE_AND ->
                IF stack = <<>> THEN Lost
                ELSE Jump("And", IF Falsey(top) THEN ip + 3 + offset ELSE ip + 3,
                          IF Falsey(top) THEN stack ELSE dropped)
          [] opCode = OPCODE_OR ->
                IF stack = <<>> THEN Lost
                ELSE Jump("Or", IF Falsey(top) THEN ip + 3 ELSE ip + 3 + offset,
                          IF Falsey(top) THEN dropped ELSE stack)
          [] opCode = OPCODE_RETURN ->
                IF stack = <<>> THEN Lost
                ELSE <<"success",
                       [op |-> "Return", at |-> ip, offset |-> 0, ip |-> ip + 1,
                        stack |-> dropped],
                       objModule>>
          [] OTHER -> Lost

ExecuteInstruction(DEBUG) ==
    /\ vmResult = "running"
    /\ outcome.op \notin {"none", "Return"}
    /\ UNCHANGED <<objMap, objList, threads, curThread, upvalues, allModules, last, classes,
                   bound, dispatch, allMethodNames, code, cu>>
    /\ \E r \in {executeInstruction(outcome, code, cu.constants, module, DEBUG)} :
          /\ Len(r[2].stack) <= MaxJumpStack
          /\ vmResult' = r[1]
          /\ outcome' = r[2]
          /\ module' = r[3]

NextJump ==
    \/ \E misread \in Misreads, crashed \in BOOLEAN : CompileJumps(misread, crashed)
    \/ \E DEBUG \in BOOLEAN : ExecuteInstruction(DEBUG)

SpecJump == InitJump /\ [][NextJump]_vars

\* ------------------------------------------------------- jumps: properties
\* C33: when a forward jump is patched its two placeholder bytes receive the
\* high byte and then the low byte of currentOffset - placeholderOffset - 2,
\* so that the 2-byte operand read of the VM returns exactly that value and
\* the taken jump lands on the instruction at currentOffset.
C33_PatchIsBigEndianOffset ==
    \A p \in cu.patched :
        /\ code[p.at + 1] = ((p.target - p.at - 2) \div 256) % 256
        /\ code[p.at + 2] = (p.target - p.at - 2) % 256
        /\ p.at + 2 + READ_SHORT(code, p.at) = p.target

C35_BreaksBecomeJumps ==
    /\ cu.st # "undefined"
    /\ \A b \in cu.breaks :
          b.end # -1 =>
             /\ code[b.at + 1] = OPCODE_JUMP
             /\ b.at + 3 + READ_SHORT(code, b.at + 1) = b.end

\* the instructions the compiler gave a jump operand
JumpsEmitted == {p.at - 1 : p \in cu.patched} \cup {w.at : w \in cu.whiles}

\* C36: every operand the compiler emits for Jump, JumpIfFalse, And, Or and
\* Loop is, read as a signed 16-bit value, strictly positive when the
\* instruction executes, as the dispatch loop requires.
C36_JumpOperandsPositive ==
    (outcome.op \in {"Jump", "JumpIfFalse", "And", "Or", "Loop"}
        /\ outcome.at \in JumpsEmitted) => outcome.offset > 0

\* C37: every instruction the compiler emits carries exactly the operand
\* bytes the dispatch loop consumes for its opcode, so that the byte after
\* them is the opcode of the next instruction (the placeholder a break leaves
\* for the loop to rewrite is no instruction yet).
C37_OperandWidthsAgree ==
    \A a \in cu.opcodes :
        code[a + 1] # OPCODE_END =>
           /\ a + 1 + operandsRead(code[a + 1]) \in cu.opcodes \cup {Len(code)}
           /\ \A b \in cu.opcodes : b > a => b >= a + 1 + operandsRead(code[a + 1])

\* ------------------------------------------------------- nested units
\* SpecClosure: the compile units of one module, from the module's unit (the
\* first) to the unit being compiled (the last): blocks, local declarations,
\* number literals, `this`, the units of methods, functions and block
\* arguments, and CreateClosure run in a finished function. A constant is
\* [type, id]: the number id or the function id. A unit also keeps, for the
\* record, the CreateClosure instructions written into it (closures) and the
\* indices of its locals that findUpvalue found for a unit nested in it
\* (captured).
OPCODE_CLOSE_UPVALUE == 54
OPCODE_CREATE_CLOSURE == 58

MaxUnits == 3         \* compile units nested in each other, the module's included
MaxClosureOps == 7    \* steps of a compilation under SpecClosure

NumConstant(v) == [type |-> "num", id |-> v]
FnConstant(fn) == [type |-> "fn", id |-> fn]

\* localVars[0] of a unit that is not a method's: name NULL, length 0
NullVar == [name |-> "NULL", length |-> "0", scopeDepth |-> -1, isUpvalue |-> FALSE, id |-> 0]

\* initCompileUnit with the fields of the unit this section follows
newCompileUnit(enclosingUnit, isMethod, fn) ==
    [datas |-> <<>>, opcodes |-> {}, constants |-> <<>>,
     localVars |-> IF ~enclosingUnit THEN <<>>
                   ELSE IF isMethod THEN <<ThisVar>> ELSE <<NullVar>>,
     upvalues |-> <<>>,
     scopeDepth |-> IF enclosingUnit THEN 0 ELSE -1,
     enclosingUnit |-> enclosingUnit, enclosingClassBK |-> FALSE,
     fn |-> fn, closures |-> {}, captured |-> {}]

\* the index of the local, -1, or NotReached - 1 when the memory read as the
\* length of a declared local equals the length of the name (match) and memcmp
\* reads through the length stored as its name. The name `this` is id 0.
Faulted == NotReached - 1

findLocalVar(unit, id, match) ==
    IF match /\ \E i \in 1..Len(unit.localVars) : unit.localVars[i].length = "junk"
    THEN Faulted
    ELSE IF id = 0 /\ \E i \in 1..Len(unit.localVars) : unit.localVars[i].length = "4"
    THEN (CHOOSE i \in 1..Len(unit.localVars) :
             /\ unit.localVars[i].length = "4"
             /\ \A j \in i + 1..Len(unit.localVars) : unit.localVars[j].length # "4") - 1
    ELSE -1

\* idx-- in the loop: only upvalues[0] is compared
addUpvalue(unit, isEnclosingLocalVar, index) ==
    IF /\ Len(unit.upvalues) > 0
       /\ unit.upvalues[1] = [isEnclosingLocalVar |-> isEnclosingLocalVar, index |-> index]
    THEN <<unit, 0>>
    ELSE <<[unit EXCEPT !.upvalues =
               Append(@, [isEnclosingLocalVar |-> isEnclosingLocalVar, index |-> index])],
           Len(unit.upvalues)>>

\* localVars[index].isUpvalue = true in the unit itself; a slot past
\* localVarNum is written too, and addLocalVar resets it when it is declared
markedUpvalue(unit, index) ==
    [unit EXCEPT !.localVars =
        [i \in 1..Len(unit.localVars) |->
            IF i = index + 1
            THEN [name |-> unit.localVars[i].name, length |-> unit.localVars[i].length,
                  scopeDepth |-> unit.localVars[i].scopeDepth, isUpvalue |-> TRUE,
                  id |-> unit.localVars[i].id]
            ELSE unit.localVars[i]]]

\* findUpvalue for unit k of units (no name of the model holds a space); the
\* units after it and the index, -1 or Faulted
RECURSIVE findUpvalue(_, _, _, _)
findUpvalue(units, k, id, match) ==
    IF k = 1 THEN [units |-> units, index |-> -1]
    ELSE IF units[k - 1].enclosingClassBK THEN [units |-> units, index |-> -1]
    ELSE LET directOuterLocalIndex == findLocalVar(units[k - 1], id, match)
         IN  IF directOuterLocalIndex = Faulted THEN [units |-> units, index |-> Faulted]
             ELSE IF directOuterLocalIndex # -1
             THEN LET added == addUpvalue(markedUpvalue(units[k], directOuterLocalIndex),
                                          TRUE, directOuterLocalIndex)
                      outer == [units[k - 1] EXCEPT
                                  !.captured = @ \cup {directOuterLocalIndex}]
                  IN  [units |-> Replaced(Replaced(units, k - 1, added[1]), k - 2, outer),
                       index |-> added[2]]
             ELSE LET found == findUpvalue(units, k - 1, id, match)
                  IN  IF found.index < 0 THEN [units |-> units, index |-> found.index]
                      ELSE LET added == addUpvalue(found.units[k], FALSE, found.index)
                           IN  [units |-> Replaced(found.units, k - 1, added[1]),
                                index |-> added[2]]

\* for the unit being compiled
getVarFromLocalOrUpvalue(units, id, match) ==
    LET index == findLocalVar(units[Len(units)], id, match)
    IN  IF index = Faulted
        THEN [units |-> units, var |-> [scopeType |-> "undefined", index |-> index]]
        ELSE IF index # -1
        THEN [units |-> units, var |-> [scopeType |-> "VAR_SCOPE_LOCAL", index |-> index]]
        ELSE LET found == findUpvalue(units, Len(units), id, match)
             IN  [units |-> found.units,
                  var |-> [scopeType |-> CASE found.index = Faulted -> "undefined"
                                           [] found.index = -1 -> "VAR_SCOPE_INVALID"
                                           [] OTHER -> "VAR_SCOPE_UPVALUE",
                           index |-> found.index]]

\* the locals discardLocalVar walks over, the last one first
Discarded(unit, scopeDepth) ==
    LET n == Cardinality({i \in 1..Len(unit.localVars) :
                            \A j \in i..Len(unit.localVars) :
                                unit.localVars[j].scopeDepth >= scopeDepth})
    IN  [j \in 1..n |-> Len(unit.localVars) + 1 - j]

\* the unit with the instructions written, and the number of locals
discardLocalVar(unit, scopeDepth) ==
    <<[unit EXCEPT !.datas = @ \o [j \in 1..Len(Discarded(unit, scopeDepth)) |->
                                      IF unit.localVars[Discarded(unit, scopeDepth)[j]].isUpvalue
                                      THEN OPCODE_CLOSE_UPVALUE
                                      ELSE OPCODE_POP]],
      Len(Discarded(unit, scopeDepth))>>

leaveScope(unit) ==
    IF unit.enclosingUnit
    THEN LET discarded == discardLocalVar(unit, unit.scopeDepth)
         IN  [discarded[1] EXCEPT
                !.localVars = SubSeq(unit.localVars, 1, Len(unit.localVars) - discarded[2]),
                !.captured = {i \in @ : i < Len(unit.localVars) - discarded[2]},
                !.scopeDepth = @ - 1]
    ELSE [unit EXCEPT !.scopeDepth = @ - 1]

\* the function the unit leaves behind
ObjFn(unit) ==
    [fn |-> unit.fn, constants |-> unit.constants, upvalueNum |-> Len(unit.upvalues),
     closures |-> unit.closures]

\* the upvalue pairs written after CreateClosure
RECURSIVE writeUpvalues(_, _, _)
writeUpvalues(unit, pairs, index) ==
    IF index > Len(pairs) THEN unit
    ELSE writeUpvalues(writeByte(writeByte(unit,
                                           IF pairs[index].isEnclosingLocalVar THEN 1 ELSE 0),
                                 pairs[index].index),
                       pairs, index + 1)

\* endCompileUnit for the last unit: the units left (the enclosing one with
\* CreateClosure written) and the function
endCompileUnit(units) ==
    LET k == Len(units)
        ended == writeOpCode(units[k], OPCODE_END)
    IN  IF k = 1 THEN <<SubSeq(units, 1, 0), ObjFn(ended)>>
        ELSE LET added == addConstant(ended, FnConstant(ended.fn))
                 created == writeOpCodeShortOperand(units[k - 1], OPCODE_CREATE_CLOSURE,
                                                    added[2])
                 enclosing == writeUpvalues(created, ended.upvalues, 1)
             IN  <<Replaced(SubSeq(units, 1, k - 1), k - 2,
                            [enclosing EXCEPT
                               !.closures = @ \cup {[at |-> Len(units[k - 1].datas),
                                                     index |-> added[2],
                                                     fn |-> ended.fn,
                                                     upvalueNum |-> Len(ended.upvalues)]}]),
                   ObjFn(added[1])>>

NoCompilation ==
    [op |-> "none", count |-> 0, fns |-> 1, locals |-> <<>>, emitted |-> <<>>,
     expected |-> 0, built |-> 0]

InitClosure ==
    /\ InitVM
    /\ InitClass
    /\ allMethodNames = <<>>
    /\ code = <<>>
    /\ module = NoModule
    /\ cu = <<newCompileUnit(FALSE, FALSE, 0)>>
    /\ outcome = NoCompilation
    /\ InitObjects

ClosureStep ==
    /\ vmResult = "running"
    /\ UNCHANGED <<objMap, objList, threads, curThread, upvalues, allModules, last, classes, bound,
                   dispatch, allMethodNames, module>>

ClosureOp(op) ==
    /\ ClosureStep
    /\ cu # <<>>
    /\ outcome.count < MaxClosureOps
    /\ outcome' = [outcome EXCEPT !.op = op, !.count = @ + 1]

\* compileMethod in a class body (the class book keeping is set on the
\* module's unit), or a function definition or a block argument
BeginUnit(isMethod) ==
    /\ ClosureStep
    /\ cu # <<>>
    /\ Len(cu) < MaxUnits
    /\ outcome.count < MaxClosureOps
    /\ isMethod => Len(cu) = 1 /\ cu[1].scopeDepth = -1
    /\ cu' = Append(IF isMethod
                    THEN Replaced(cu, 0, [cu[1] EXCEPT !.enclosingClassBK = TRUE])
                    ELSE cu,
                    newCompileUnit(TRUE, isMethod, outcome.fns))
    /\ outcome' = [outcome EXCEPT !.op = "initCompileUnit", !.count = @ + 1, !.fns = @ + 1]
    /\ UNCHANGED <<vmResult, code>>

EnterBlock ==
    /\ ClosureOp("enterScope")
    /\ cu[Len(cu)].scopeDepth < MaxScopeDepth
    /\ cu' = Replaced(cu, Len(cu) - 1, [cu[Len(cu)] EXCEPT !.scopeDepth = @ + 1])
    /\ UNCHANGED <<vmResult, code>>

\* a `var` statement in a block or in the body of a function
DeclareLocal(id, match) ==
    /\ ClosureStep
    /\ cu # <<>>
    /\ outcome.count < MaxClosureOps
    /\ cu[Len(cu)].scopeDepth >= 0
    /\ LET r == declareLocalVar(cu[Len(cu)], id, match)
       IN  /\ cu' = Replaced(cu, Len(cu) - 1, r.unit)
           /\ vmResult' = CASE r.result = "error" -> "exit"
                             [] r.result = "declared" -> "running"
                             [] OTHER -> "undefined"
    /\ outcome' = [outcome EXCEPT !.op = "declareLocal", !.count = @ + 1]
    /\ UNCHANGED code

\* leaveScope at the end of a block; outcome keeps the locals of the block,
\* the last one first, each with whether a nested unit captured it, and the
\* bytes written
LeaveBlock ==
    /\ ClosureStep
    /\ cu # <<>>
    /\ outcome.count < MaxClosureOps
    /\ LET unit == cu[Len(cu)]
           left == leaveScope(unit)
       IN  /\ unit.scopeDepth > (IF unit.enclosingUnit THEN 0 ELSE -1)
           /\ cu' = Replaced(cu, Len(cu) - 1, left)
           /\ outcome' = [outcome EXCEPT
                            !.op = "leaveScope", !.count = @ + 1,
                            !.locals = [j \in 1..Len(Discarded(unit, unit.scopeDepth)) |->
                                           Discarded(unit, unit.scopeDepth)[j] - 1
                                              \in unit.captured],
                            !.emitted = SubSeq(left.datas, Len(unit.datas) + 1,
                                               Len(left.datas))]
    /\ UNCHANGED <<vmResult, code>>

\* a number literal
LoadConstant(v) ==
    /\ ClosureOp("emitLoadConstant")
    /\ cu' = Replaced(cu, Len(cu) - 1, emitLoadConstant(cu[Len(cu)], NumConstant(v)))
    /\ UNCHANGED <<vmResult, code>>

\* `this`: a compile error outside the methods of a class, else emitLoadThis
LoadThis(match) ==
    /\ ClosureOp("emitLoadThis")
    /\ IF \A k \in 1..Len(cu) : ~cu[k].enclosingClassBK
       THEN vmResult' = "exit" /\ UNCHANGED cu
       ELSE LET r == getVarFromLocalOrUpvalue(cu, 0, match)
            IN  IF r.var.scopeType \in {"undefined", "VAR_SCOPE_INVALID"}
                THEN vmResult' = "undefined" /\ UNCHANGED cu
                ELSE /\ cu' = Replaced(r.units, Len(cu) - 1,
                                       emitLoadVariable(r.units[Len(cu)], r.var))
                     /\ UNCHANGED vmResult
    /\ UNCHANGED code

\* the end of the body of the unit being compiled (a unit is left with its
\* blocks closed); after a method the class body goes on or ends, and the
\* class book keeping is taken off the module's unit
EndUnit ==
    /\ ClosureOp("endCompileUnit")
    /\ cu[Len(cu)].scopeDepth = (IF cu[Len(cu)].enclosingUnit THEN 0 ELSE -1)
    /\ LET r == endCompileUnit(cu)
       IN  /\ cu' = IF Len(r[1]) = 1
                    THEN <<[r[1][1] EXCEPT !.enclosingClassBK = FALSE]>>
                    ELSE r[1]
           /\ code' = Append(code, r[2])
    /\ UNCHANGED vmResult

\* OPCODE_CREATE_CLOSURE run in a finished function: the constant at the
\* operand is taken for a function. Past the constants, or at a number, what
\* is read is no function.
RunCreateClosure(f, c) ==
    /\ ClosureStep
    /\ f \in 1..Len(code)
    /\ c \in code[f].closures
    /\ outcome.op # "createClosure"
    /\ IF c.index >= Len(code[f].constants) \/ code[f].constants[c.index + 1].type # "fn"
       THEN /\ vmResult' = "undefined"
            /\ outcome' = [outcome EXCEPT !.op = "createClosure", !.expected = c.fn,
                                          !.built = -1]
       ELSE /\ UNCHANGED vmResult
            /\ outcome' = [outcome EXCEPT !.op = "createClosure", !.expected = c.fn,
                                          !.built = code[f].constants[c.index + 1].id]
    /\ UNCHANGED <<cu, code>>

NextClosure ==
    \/ \E isMethod \in BOOLEAN : BeginUnit(isMethod)
    \/ EnterBlock
    \/ \E id \in 1..2, match \in BOOLEAN : DeclareLocal(id, match)
    \/ LeaveBlock
    \/ LoadConstant(7)
    \/ \E match \in BOOLEAN : LoadThis(match)
    \/ EndUnit
    \/ \E f \in 1..Len(code) : \E c \in code[f].closures : RunCreateClosure(f, c)

SpecClosure == InitClosure /\ [][NextClosure]_vars

\* C38: when a nested compile unit closes, its function is in the constant
\* pool of the enclosing unit at the index that the CreateClosure written into
\* the enclosing unit carries, upvalueNum operand pairs follow the index, and
\* CreateClosure at run time builds a closure of the nested function.
C38_ClosureOfNestedFunction ==
    /\ \A k \in 1..Len(cu) : \A c \in cu[k].closures :
          /\ c.index < Len(cu[k].constants)
          /\ cu[k].constants[c.index + 1] = FnConstant(c.fn)
    /\ \A f \in 1..Len(code) : \A c \in code[f].closures :
          /\ c.index < Len(code[f].constants)
          /\ code[f].constants[c.index + 1] = FnConstant(c.fn)
    /\ outcome.op = "createClosure" => outcome.built = outcome.expected

\* C39: when a scope is left, one discard instruction is written for each
\* local of the scope: CloseUpvalue when a nested unit captured the local, Pop
\* otherwise.
C39_OneDiscardPerLocal ==
    outcome.op = "leaveScope" =>
       /\ Len(outcome.emitted) = Len(outcome.locals)
       /\ \A j \in 1..Len(outcome.locals) :
             j <= Len(outcome.emitted) =>
                outcome.emitted[j] = (IF outcome.locals[j] THEN OPCODE_CLOSE_UPVALUE
                                      ELSE OPCODE_POP)

\* ------------------------------------------------------- super calls
\* SpecSuper: the body of one method without parameters is compiled from
\* statements `super.m(args)` and `A.m(args)`, the method is bound on its
\* class (patchOperand) and run one instruction at a time. cu is the unit and
\* then the function: the instructions, the constants ("null", "num", "fn" or
\* the name of a class), for the record the SuperN instructions compiled
\* (supers: offset, constant index, argNum), and after the binding the
\* superclass of the class bound on. The module has ModuleVarNum variables; A
\* is variable 0 and B the last one.
OPCODE_LOAD_THIS_FIELD == 10
OPCODE_STORE_THIS_FIELD == 11
OPCODE_LOAD_FIELD == 12
OPCODE_STORE_FIELD == 13
OPCODE_CALL0 == 15
OPCODE_SUPER0 == 32
OPCODE_CONSTRUCT == 56
OPCODE_CREATE_CLASS == 57
OPCODE_INSTANCE_METHOD == 59
OPCODE_STATIC_METHOD == 60

MAX_ARG_NUM == 16
ModuleVarNum == 34
MaxSuperStatements == 2   \* statements of the method body under SpecSuper

ThisVariable == [scopeType |-> "VAR_SCOPE_LOCAL", index |-> 0]

\* the operand bytes patchOperand skips; NotReached for a byte that is no
\* opcode, Faulted for CreateClosure, whose constant is read as a function
\* (no constant of the method's pool is one of its nested functions)
getBytesOfOperands(opCode) ==
    CASE opCode \in {OPCODE_CONSTRUCT, OPCODE_RETURN, OPCODE_END, OPCODE_CLOSE_UPVALUE,
                     OPCODE_PUSH_NULL, OPCODE_PUSH_FALSE, OPCODE_PUSH_TRUE, OPCODE_POP} -> 0
      [] opCode \in {OPCODE_CREATE_CLASS, OPCODE_LOAD_THIS_FIELD, OPCODE_STORE_THIS_FIELD,
                     OPCODE_LOAD_FIELD, OPCODE_STORE_FIELD, OPCODE_LOAD_LOCAL_VAR,
                     OPCODE_STORE_LOCAL_VAR, OPCODE_LOAD_UPVALUE, OPCODE_STORE_UPVALUE} -> 1
      [] opCode \in OPCODE_CALL0..OPCODE_CALL0 + MAX_ARG_NUM -> 2
      [] opCode \in {OPCODE_LOAD_CONSTANT, OPCODE_LOAD_MODULE_VAR, OPCODE_STORE_MODULE_VAR,
                     OPCODE_LOOP, OPCODE_JUMP, OPCODE_JUMP_IF_FALSE, OPCODE_AND, OPCODE_OR,
                     OPCODE_INSTANCE_METHOD, OPCODE_STATIC_METHOD} -> 2
      [] opCode \in OPCODE_SUPER0..OPCODE_SUPER0 + MAX_ARG_NUM -> 4
      [] opCode = OPCODE_CREATE_CLOSURE -> Faulted
      [] OTHER -> NotReached

methodUnit ==
    [datas |-> <<>>, opcodes |-> {}, constants |-> <<>>, supers |-> {}, st |-> "compiling",
     statements |-> 0, superClass |-> "none"]

\* the call instruction for the signature with the symbol index; after
\* SuperN a Null constant is added and its index written
emitCallBySignatureOf(unit, symbolIndex, argNum, opcode) ==
    LET called == writeOpCodeShortOperand(unit, opcode + argNum, symbolIndex)
        added == addConstant(called, "null")
    IN  IF opcode = OPCODE_SUPER0
        THEN [writeShortOperand(added[1], added[2]) EXCEPT
                !.supers = @ \cup {[at |-> Len(unit.datas), index |-> added[2],
                                    argNum |-> argNum]}]
        ELSE called

\* an argument: `true`, a number literal, or the module variable B
compileArgument(unit, arg) ==
    CASE arg = "true" -> writeOpCode(unit, OPCODE_PUSH_TRUE)
      [] arg = "num" -> emitLoadConstant(unit, "num")
      [] arg = "B" -> emitLoadVariable(unit, ModuleVariable(ModuleVarNum - 1))

RECURSIVE processArgList(_, _, _)
processArgList(unit, args, i) ==
    IF i > Len(args) THEN unit
    ELSE processArgList(compileArgument(unit, args[i]), args, i + 1)

\* the statement `super.m(args)`: this, the arguments, SuperN, Pop
compileSuper(unit, args, symbolIndex) ==
    writeOpCode(emitCallBySignatureOf(processArgList(emitLoadVariable(unit, ThisVariable),
                                                     args, 1),
                                      symbolIndex, Len(args), OPCODE_SUPER0),
                OPCODE_POP)

\* the statement `A.m(args)`: the module variable, the arguments, CallN, Pop
compileCallOnVariable(unit, args, symbolIndex) ==
    writeOpCode(emitCallBySignatureOf(processArgList(emitLoadVariable(unit, ModuleVariable(0)),
                                                     args, 1),
                                      symbolIndex, Len(args), OPCODE_CALL0),
                OPCODE_POP)

\* compileBody of a method that is no constructor, then endCompileUnit: the
\* function is added to the constants of its own unit
compileBody(unit) ==
    LET ended == writeOpCode(writeOpCode(writeOpCode(unit, OPCODE_PUSH_NULL), OPCODE_RETURN),
                             OPCODE_END)
    IN  [addConstant(ended, "fn")[1] EXCEPT !.st = "compiled"]

\* patchOperand from ip on: the function with the field operands raised by
\* the field count of the superclass and the constants named by SuperN set to
\* the superclass; st is "undefined" when the walk reads or writes outside a
\* buffer, takes a constant that is none for a function, or does not end
RECURSIVE patchOperand(_, _, _, _, _)
patchOperand(fn, ip, superClass, fieldNum, fuel) ==
    LET opCode == fn.datas[ip + 1]
        Failed == [fn EXCEPT !.st = "undefined"]
        width == getBytesOfOperands(opCode)
    IN  IF fuel = 0 \/ ip >= Len(fn.datas) THEN Failed
        ELSE IF opCode = OPCODE_END THEN [fn EXCEPT !.st = "bound", !.superClass = superClass]
        ELSE IF opCode \in {OPCODE_LOAD_FIELD, OPCODE_STORE_FIELD, OPCODE_LOAD_THIS_FIELD,
                            OPCODE_STORE_THIS_FIELD}
        THEN IF ip + 1 >= Len(fn.datas) THEN Failed
             ELSE patchOperand([fn EXCEPT !.datas = Replaced(fn.datas, ip + 1,
                                                             (fn.datas[ip + 2] + fieldNum) % 256)],
                               ip + 2, superClass, fieldNum, fuel - 1)
        ELSE IF opCode \in OPCODE_SUPER0..OPCODE_SUPER0 + MAX_ARG_NUM
        THEN IF ip + 4 >= Len(fn.datas) \/ READ_SHORT(fn.datas, ip + 3) >= Len(fn.constants)
             THEN Failed
             ELSE patchOperand([fn EXCEPT !.constants =
                                   Replaced(fn.constants, READ_SHORT(fn.datas, ip + 3),
                                            superClass)],
                               ip + 5, superClass, fieldNum, fuel - 1)
        ELSE IF width < 0 THEN Failed
        ELSE patchOperand(fn, ip + 1 + width, superClass, fieldNum, fuel - 1)

\* the registers of the frame of the method: slot 0 holds the receiver
MethodFrame == [op |-> "call", at |-> 0, offset |-> 0, ip |-> 0, stack |-> <<"this">>]

\* one turn of the dispatch loop in the method: what becomes of vmResult and
\* of the registers. After SuperN and CallN the method found runs and gives
\* its value back (found), or there is none and the run ends with the error.
executeMethodInstruction(regs, fn, objModule, found) ==
    LET ip == regs.ip
        stack == regs.stack
        opCode == IF ip >= 0 /\ ip < Len(fn.datas) THEN fn.datas[ip + 1] ELSE NotReached
        Lost == <<"undefined", regs>>
        Called(op, operand, argNum) ==
            <<IF found THEN "running" ELSE "exit",
              [op |-> op, at |-> ip, offset |-> operand,
               ip |-> ip + 1 + getBytesOfOperands(opCode),
               stack |-> Append(SubSeq(stack, 1, Len(stack) - argNum), "value")]>>
    IN  IF opCode = OPCODE_LOAD_LOCAL_VAR
        THEN IF ip + 1 >= Len(fn.datas) \/ fn.datas[ip + 2] >= Len(stack) THEN Lost
             ELSE <<"running",
                    [op |-> "LoadLocalVar", at |-> ip, offset |-> fn.datas[ip + 2],
                     ip |-> ip + 2, stack |-> Append(stack, stack[fn.datas[ip + 2] + 1])]>>
        ELSE IF opCode \in OPCODE_CALL0..OPCODE_CALL0 + MAX_ARG_NUM
        THEN IF ip + 2 >= Len(fn.datas) \/ Len(stack) < opCode - OPCODE_CALL0 + 1 THEN Lost
             ELSE Called("CallN", READ_SHORT(fn.datas, ip + 1), opCode - OPCODE_CALL0 + 1)
        ELSE IF opCode \in OPCODE_SUPER0..OPCODE_SUPER0 + MAX_ARG_NUM
        THEN IF \/ ip + 4 >= Len(fn.datas)
                \/ Len(stack) < opCode - OPCODE_SUPER0 + 1
                \/ READ_SHORT(fn.datas, ip + 3) >= Len(fn.constants)
             THEN Lost
             ELSE IF fn.constants[READ_SHORT(fn.datas, ip + 3) + 1] \in {"null", "num", "fn"}
             THEN <<"undefined",
                    [op |-> "SuperN", at |-> ip, offset |-> READ_SHORT(fn.datas, ip + 3),
                     ip |-> ip, stack |-> stack]>>
             ELSE Called("SuperN", READ_SHORT(fn.datas, ip + 3), opCode - OPCODE_SUPER0 + 1)
        ELSE LET r == executeInstruction(regs, fn.datas, fn.constants, objModule, FALSE)
             IN  <<r[1], r[2]>>

\* argument lists of the statements
ArgLists ==
    {<<>>, <<"true">>, <<"B">>, <<"B", "true", "num">>, [i \in 1..MAX_ARG_NUM |-> "true"]}

InitSuper ==
    /\ InitVM
    /\ InitClass
    /\ InitObjects
    /\ allMethodNames = <<>>
    /\ module = [moduleVarName |-> [i \in 1..ModuleVarNum |-> "name"],
                 moduleVarValue |-> [i \in 1..ModuleVarNum |-> "null"]]
    /\ code = <<>>
    /\ cu = methodUnit
    /\ outcome = NoJump

SuperStep ==
    /\ vmResult = "running"
    /\ UNCHANGED <<objMap, objList, threads, curThread, upvalues, allModules, last, classes,
                   bound, dispatch, allMethodNames, module>>

CompileSuper(args, symbolIndex) ==
    /\ SuperStep
    /\ cu.st = "compiling"
    /\ cu.statements < MaxSuperStatements
    /\ cu' = [compileSuper(cu, args, symbolIndex) EXCEPT !.statements = @ + 1]
    /\ UNCHANGED <<vmResult, code, outcome>>

CompileCallOnVariable(args, symbolIndex) ==
    /\ SuperStep
    /\ cu.st = "compiling"
    /\ cu.statements < MaxSuperStatements
    /\ cu' = [compileCallOnVariable(cu, args, symbolIndex) EXCEPT !.statements = @ + 1]
    /\ UNCHANGED <<vmResult, code, outcome>>

\* the `}` of the method body
CompileBody ==
    /\ SuperStep
    /\ cu.st = "compiling"
    /\ cu' = compileBody(cu)
    /\ code' = cu'.datas
    /\ UNCHANGED <<vmResult, outcome>>

\* OPCODE_INSTANCE_METHOD or OPCODE_STATIC_METHOD: bindMethodAndPatch on the
\* class, or on its meta class, whose superclass is the class of classes
BindMethod(opCode, fieldNum) ==
    /\ SuperStep
    /\ cu.st = "compiled"
    /\ cu' = patchOperand(cu, 0,
                          IF opCode = OPCODE_STATIC_METHOD THEN "classOfClass" ELSE "Super",
                          fieldNum, Len(cu.datas) + 1)
    /\ code' = cu'.datas
    /\ vmResult' = IF cu'.st = "undefined" THEN "undefined" ELSE "running"
    /\ outcome' = IF cu'.st = "bound" THEN MethodFrame ELSE outcome

ExecuteMethodInstruction(found) ==
    /\ SuperStep
    /\ cu.st = "bound"
    /\ outcome.op # "Return"
    /\ \E r \in {executeMethodInstruction(outcome, cu, module, found)} :
          /\ vmResult' = r[1]
          /\ outcome' = r[2]
    /\ UNCHANGED <<cu, code>>

NextSuper ==
    \/ \E args \in ArgLists, symbolIndex \in {0, 2} : CompileSuper(args, symbolIndex)
    \/ \E args \in ArgLists, symbolIndex \in {0, 2} : CompileCallOnVariable(args, symbolIndex)
    \/ CompileBody
    \/ \E opCode \in {OPCODE_INSTANCE_METHOD, OPCODE_STATIC_METHOD}, fieldNum \in {0, 1} :
          BindMethod(opCode, fieldNum)
    \/ \E found \in BOOLEAN : ExecuteMethodInstruction(found)

SpecSuper == InitSuper /\ [][NextSuper]_vars

\* C40: whenever a SuperN instruction executes, the constant its second
\* operand names is one that emitCallBySignature reserved for this very
\* instruction when the method was compiled, and it holds the superclass of
\* the class the method was bound on.
C40_SuperSlotHoldsSuperClass ==
    outcome.op = "SuperN" =>
       /\ \E s \in cu.supers : s.at = outcome.at /\ s.index = outcome.offset
       /\ cu.constants[outcome.offset + 1] = cu.superClass

====
